---- MODULE Spec2Model ----
(***************************************************************************)
(* A state-machine model of src/js/script.js: the ThemeManager, the        *)
(* FormValidator and the PortfolioApp coordinator of the portfolio page.   *)
(* Every handler of the script is one action; the DOM nodes, the session   *)
(* storage and the pending timers the handlers touch are the state.        *)
(***************************************************************************)
EXTENDS Integers, Sequences, FiniteSets, TLC

\* ------------------------------------------------------------------ bounds
\* init() runs (and so ThemeManager instances) one behaviour may start
MaxInits == 2
\* pending 1 s recovery timers of the window 'error' listener
MaxRecoveryTimers == 1
\* the longest value typed into the email, name and message fields
MaxEmailLen == 6
MaxNameLen == 3
MaxMessageLen == 11
\* NavigationManager instances constructed, and pending focus timers
MaxNavs == 2
MaxFocusTimers == 1
\* FormValidator instances constructed on the form
MaxValidators == 2

\* ------------------------------------------------------------- CONFIG.THEME
\* what getItem returns for a missing key, and a removed attribute
Null == "null"
\* resizeTimeout or scrollTimeout before its first assignment: undefined
NoTimer == [run |-> 0, kind |-> "none", n |-> 0]
\* CONFIG.THEME.DEFAULT
DEFAULT == "dark"
\* the own keys of CONFIG.THEME.ICONS (and of LABELS)
ThemeNames == {"light", "dark"}
\* property names every object literal inherits from Object.prototype
\* ("constructor" stands for them: toString, valueOf, __proto__, ...)
InheritedKeys == {"constructor"}
\* the strings a caller or the storage can hand to the ThemeManager
Strings == {"light", "dark", "blue", "constructor"}

\* CONFIG.THEME.ICONS[theme] is truthy: an own key, or a name found on the
\* prototype chain of the object literal
IconsLookup(theme) == theme \in ThemeNames \cup InheritedKeys

\* the methods class ThemeManager defines
ThemeManagerMethods ==
  {"init", "toggle", "set", "apply", "updateButton", "save", "loadSavedTheme"}

\* instance.name for a method name: the class's method, or undefined
MethodLookup(name) == IF name \in ThemeManagerMethods THEN "method" ELSE "undefined"

VARIABLES
  page,              \* what the markup and the browser provide (fixed)
  themeManagers,     \* the ThemeManager instances constructed so far
  dataTheme,         \* body[data-theme]: "dark" or Null
  themeTransition,   \* body.classList has 'theme-transition'
  transitionTimers,  \* some timer of apply() has yet to remove 'theme-transition'
  stored,            \* sessionStorage['portfolio-theme'] or Null
  themeButton,       \* the toggle control: icon text, aria-label, aria-pressed
  metaContent,       \* meta[name=theme-color] content
  loaded,            \* DOMContentLoaded has fired
  apps,              \* the PortfolioApp instances constructed so far
  portfolioApp,      \* the global: an index into apps, or 0 for null
  pendingFrames,     \* init() runs waiting in waitForNextFrame(), by app
  inits,             \* init() runs started so far
  keydownListeners,  \* document keydown handlers of setupGlobalEventListeners, by app
  recoveryTimers,    \* pending timers of the window 'error' listener
  debouncers,        \* resizeTimeout and scrollTimeout of each setupGlobalEventListeners run
  timers,            \* the ids of the pending debounce timers, in the order they were set
  viewport,          \* window.innerWidth and window.scrollY
  bodyClasses,       \* is-mobile, is-desktop and has-scrolled on the body
  lastDebounce,      \* the latest resize, scroll or debounce timer step, and
                     \* per run and kind the handler runs since the last event
                     \* (-1: the listener has had no event)
  last,              \* the latest operation and the state it started from
  formPage,          \* what the markup provides around the contact form (fixed)
  element,           \* the value of the #name, #email and #message inputs
  fields,            \* FormValidator.fields: isValid and value of each field
  fieldError,        \* what each field's error element and aria-invalid show
  isSubmitting,      \* FormValidator.isSubmitting
  latencyTimers,     \* pending 1.5 s timers of simulateFormSubmission
  submitButton,      \* the submit control: disabled, loading class, visible label
  focus,             \* document.activeElement
  modalShown,        \* #successModal is displayed
  modalListeners,    \* the close triggers showSuccessMessage has registered
  successMessage,    \* the inline .success-message: absent, shown or hidden
  successTimers,     \* some 5 s timer has yet to hide the inline message
  laterValidators,   \* the state of the FormValidators constructed after the first
  pendingWaits,      \* whose 1.5 s waits are pending, oldest first (0: the first)
  lastForm,          \* the latest form operation and what it showed
  navPage,           \* what the markup provides around the navigation (fixed)
  navs,              \* the NavigationManager instances constructed so far
  menuDom,           \* active classes, ARIA attributes and body overflow of the menu
  navFocus,          \* where the navigation code has left the focus
  focusTimers,       \* pending 100 ms timers of openMobileMenu
  activeLinks,       \* the sections whose navigation link carries 'active'
  intersecting,      \* the sections that intersect the central viewport band
  seen,              \* per instance: the section last reported and its updates
  lastNav            \* the latest navigation event and what it requested

themeVars == <<themeManagers, dataTheme, themeTransition, transitionTimers,
               stored, themeButton>>
appVars == <<metaContent, loaded, apps, portfolioApp, pendingFrames,
             inits, keydownListeners, recoveryTimers, debouncers>>
debounceVars == <<timers, viewport, bodyClasses, lastDebounce>>
formVars == <<formPage, element, fields, fieldError, isSubmitting, latencyTimers,
              submitButton, focus, modalShown, modalListeners, successMessage,
              successTimers, laterValidators, pendingWaits, lastForm>>
navVars == <<navPage, navs, menuDom, navFocus, focusTimers, activeLinks,
             intersecting, seen, lastNav>>
vars == <<page, themeVars, appVars, last, formVars, navVars, debounceVars>>

\* ----------------------------------------------------------- ThemeManager
\* The part of the state ThemeManager methods read and write, as one value.
World ==
  [tms |-> themeManagers, dataTheme |-> dataTheme,
   themeTransition |-> themeTransition, transitionTimers |-> transitionTimers,
   stored |-> stored, themeButton |-> themeButton]

SetWorld(w) ==
  /\ themeManagers' = w.tms
  /\ dataTheme' = w.dataTheme
  /\ themeTransition' = w.themeTransition
  /\ transitionTimers' = w.transitionTimers
  /\ stored' = w.stored
  /\ themeButton' = w.themeButton

\* ThemeManager.apply
apply(w, theme) ==
  [w EXCEPT !.dataTheme = IF theme = "dark" THEN "dark" ELSE Null,
            !.themeTransition = TRUE,
            !.transitionTimers = TRUE]

\* updateButton without its "if (!this.button) return"
updateButtonUnguarded(w, i) ==
  LET nextTheme == IF w.tms[i].currentTheme = "light" THEN "dark" ELSE "light"
  IN [w EXCEPT !.themeButton =
        [icon |-> nextTheme, label |-> nextTheme,
         pressed |-> IF w.tms[i].currentTheme = "dark" THEN "true" ELSE "false"]]

\* ThemeManager.updateButton
updateButton(w, i) ==
  IF ~w.tms[i].button THEN w
  ELSE LET nextTheme == IF w.tms[i].currentTheme = "light" THEN "dark" ELSE "light"
       IN [w EXCEPT !.themeButton =
             [icon |-> IF page.themeToggle = "icon" THEN nextTheme ELSE @.icon,
              label |-> nextTheme,
              pressed |-> IF w.tms[i].currentTheme = "dark" THEN "true" ELSE "false"]]

\* ThemeManager.save: a setItem that throws is caught
save(w, i) ==
  IF page.storage THEN [w EXCEPT !.stored = w.tms[i].currentTheme] ELSE w

\* ThemeManager.set
set(w, i, theme) ==
  IF ~IconsLookup(theme) THEN w
  ELSE updateButton(save(apply([w EXCEPT !.tms[i].currentTheme = theme], theme), i), i)

\* toggle that always asks for 'light'
toggleStuck(w, i) == set(w, i, "light")

\* ThemeManager.toggle
toggle(w, i) ==
  set(w, i, IF w.tms[i].currentTheme = "light" THEN "dark" ELSE "light")

\* ThemeManager.loadSavedTheme: a getItem that throws gives the default
loadSavedTheme(w, i) ==
  [w EXCEPT !.tms[i].currentTheme =
     IF page.storage
       THEN (IF w.stored # Null /\ IconsLookup(w.stored) THEN w.stored ELSE DEFAULT)
       ELSE DEFAULT]

\* ThemeManager.init, for the instance the constructor just made
init(w, i) ==
  LET found == page.themeToggle # "absent"
      w1 == [w EXCEPT !.tms[i].button = found]
  IN IF ~found THEN w1
     ELSE LET w2 == loadSavedTheme(w1, i) IN apply(w2, w2.tms[i].currentTheme)

\* new ThemeManager(): the instance is appended; one whose button was found
\* has a click listener on it from then on
NewThemeManager(w) ==
  LET i == Len(w.tms) + 1
  IN init([w EXCEPT !.tms = Append(@, [currentTheme |-> DEFAULT, button |-> FALSE,
                                           toggleTheme |-> MethodLookup("toggleTheme"),
                                           wrappers |-> 0])], i)

\* a click on the toggle control runs the listener of every instance that
\* found the button, in the order the listeners were added
RECURSIVE ClickFrom(_, _)
ClickFrom(w, i) ==
  IF i > Len(w.tms) THEN w
  ELSE ClickFrom(IF w.tms[i].button THEN toggle(w, i) ELSE w, i + 1)

Listeners(w) == Cardinality({i \in 1..Len(w.tms) : w.tms[i].button})

\* ----------------------------------------------------------- PortfolioApp
\* The state the coordinator's code reads and writes, as one value; events
\* and errors collect what one event dispatch did.
Sys ==
  [w |-> World, metaContent |-> metaContent, apps |-> apps,
   portfolioApp |-> portfolioApp, pendingFrames |-> pendingFrames,
   inits |-> inits, keydownListeners |-> keydownListeners,
   recoveryTimers |-> recoveryTimers, debouncers |-> debouncers,
   events |-> <<>>, errors |-> 0]

SetSys(s) ==
  /\ SetWorld(s.w)
  /\ metaContent' = s.metaContent
  /\ apps' = s.apps
  /\ portfolioApp' = s.portfolioApp
  /\ pendingFrames' = s.pendingFrames
  /\ inits' = s.inits
  /\ keydownListeners' = s.keydownListeners
  /\ recoveryTimers' = s.recoveryTimers
  /\ debouncers' = s.debouncers

\* the window 'error' listener: an uncaught error schedules a recovery when
\* there is no coordinator or it is not initialized
windowError(s) ==
  LET s1 == [s EXCEPT !.errors = @ + 1]
  IN IF s.portfolioApp = 0 \/ ~s.apps[s.portfolioApp].isInitialized
       THEN [s1 EXCEPT !.recoveryTimers = @ + 1]
       ELSE s1

\* PortfolioApp.updateThemeSpecificElements
updateThemeSpecificElements(s) ==
  IF page.themeColorMeta
    THEN [s EXCEPT !.metaContent = IF s.w.dataTheme = "dark" THEN "#1a1a1a" ELSE "#ffffff"]
    ELSE s

\* PortfolioApp.onThemeChange of app a
onThemeChange(s, a) ==
  LET tm == s.apps[a].themeManager
      s1 == updateThemeSpecificElements(s)
  IN [s1 EXCEPT !.events =
        Append(@, IF tm = 0 THEN "undefined" ELSE s1.w.tms[tm].currentTheme)]

RECURSIVE Wrapped(_, _, _)
Wrapped(s, a, n) == IF n = 0 THEN s ELSE Wrapped(onThemeChange(s, a), a, n - 1)

\* the call themeManager.toggleTheme() made by app a: a TypeError when the
\* instance has no such property; otherwise the method, then the
\* onThemeChange of each wrapper setupComponentIntegration put around it
toggleThemeCall(s, a) ==
  LET tm == s.apps[a].themeManager
  IN IF s.w.tms[tm].toggleTheme = "undefined"
       THEN windowError(s)
       ELSE Wrapped([s EXCEPT !.w = toggle(@, tm)], a, s.w.tms[tm].wrappers)

\* PortfolioApp.handleKeyboardShortcuts of app a, for Ctrl/Cmd+Shift+T
handleKeyboardShortcuts(s, a) ==
  IF s.apps[a].themeManager # 0 THEN toggleThemeCall(s, a) ELSE s

\* the keydown reaches every registered handler, in registration order
RECURSIVE KeydownFrom(_, _)
KeydownFrom(s, k) ==
  IF k > Len(s.keydownListeners) THEN s
  ELSE KeydownFrom(handleKeyboardShortcuts(s, s.keydownListeners[k]), k + 1)

\* PortfolioApp.setupComponentIntegration of app a: [s, threw]
setupComponentIntegration(s, a) ==
  LET tm == s.apps[a].themeManager
  IN IF tm # 0 /\ s.apps[a].navigationManager
       THEN IF s.w.tms[tm].toggleTheme = "undefined"
              THEN [s |-> s, threw |-> TRUE]
              ELSE [s |-> [s EXCEPT !.w.tms[tm].wrappers = @ + 1], threw |-> FALSE]
       ELSE [s |-> s, threw |-> FALSE]

\* handleInitializationError without its "if (!this.components.themeManager)"
handleInitializationErrorUnguarded(s, a) ==
  LET w1 == NewThemeManager(s.w)
  IN [s EXCEPT !.w = w1, !.apps[a].themeManager = Len(w1.tms)]

\* PortfolioApp.handleInitializationError of app a
handleInitializationError(s, a) ==
  IF s.apps[a].themeManager = 0
    THEN LET w1 == NewThemeManager(s.w)
         IN [s EXCEPT !.w = w1, !.apps[a].themeManager = Len(w1.tms)]
    ELSE s

\* init() of app a up to its await: new ThemeManager(), then the frame wait
InitStart(s, a) ==
  LET w1 == NewThemeManager(s.w)
  IN [s EXCEPT !.w = w1,
               !.apps[a].themeManager = Len(w1.tms),
               !.pendingFrames = Append(@, a),
               !.inits = @ + 1]

\* new NavigationManager() throws where its init reaches
\* new IntersectionObserver and the browser defines none
NavigationManagerThrows == page.navigation = "noObserver"

\* InitResume that sets isInitialized although the integration threw
InitResumeMarksInitialized(s, a) ==
  IF NavigationManagerThrows
    THEN handleInitializationError(s, a)
    ELSE LET s1 == [s EXCEPT !.apps[a].navigationManager = TRUE,
                             !.apps[a].formValidator = TRUE,
                             !.keydownListeners = Append(@, a),
                             !.debouncers = Append(@, [resizeTimeout |-> NoTimer,
                                                       scrollTimeout |-> NoTimer])]
             r == setupComponentIntegration(s1, a)
         IN [(IF r.threw THEN handleInitializationError(r.s, a) ELSE r.s)
               EXCEPT !.apps[a].isInitialized = TRUE]

\* init() of app a from the frame on: the other two components, the global
\* listeners, the integration, isInitialized; a throw goes to the fallback
InitResume(s, a) ==
  IF NavigationManagerThrows
    THEN handleInitializationError(s, a)
    ELSE LET s1 == [s EXCEPT !.apps[a].navigationManager = TRUE,
                             !.apps[a].formValidator = TRUE,
                             !.keydownListeners = Append(@, a),
                             !.debouncers = Append(@, [resizeTimeout |-> NoTimer,
                                                       scrollTimeout |-> NoTimer])]
             r == setupComponentIntegration(s1, a)
         IN IF r.threw THEN handleInitializationError(r.s, a)
            ELSE [r.s EXCEPT !.apps[a].isInitialized = TRUE]

\* new PortfolioApp()
NewPortfolioApp(s) ==
  LET a == Len(s.apps) + 1
      s1 == [s EXCEPT !.apps = Append(@, [isInitialized |-> FALSE, themeManager |-> 0,
                                          navigationManager |-> FALSE,
                                          formValidator |-> FALSE]),
                      !.portfolioApp = a]
  IN InitStart(s1, a)

\* PortfolioApp.reinitialize of app a
reinitialize(s, a) == InitStart([s EXCEPT !.apps[a].isInitialized = FALSE], a)

\* ------------------------------------------------------- NavigationManager
\* section[id] elements in document order, and where each one starts
Sections == <<"sobre", "projetos", "contato">>
SectionIds == {Sections[k] : k \in 1..Len(Sections)}
offsetTop(section) ==
  IF section = "sobre" THEN 0 ELSE IF section = "projetos" THEN 600 ELSE 1200

\* .nav-link and .footer-link anchors: in the menu or not, and the section
\* their href names (Null: it names no element)
NavLinks == [inMenu : BOOLEAN, target : SectionIds \cup {Null}]

\* what openMobileMenu and closeMobileMenu leave on the menu, the toggle
\* control and the body
OpenDom == [menuActive |-> TRUE, toggleActive |-> TRUE, ariaExpanded |-> "true",
            ariaHidden |-> "false", overflow |-> "hidden"]
ClosedDom == [menuActive |-> FALSE, toggleActive |-> FALSE, ariaExpanded |-> "false",
              ariaHidden |-> "true", overflow |-> ""]

\* the state NavigationManager methods read and write, as one value; scrolls
\* collects the window.scrollTo requests of one event dispatch, updates counts
\* the times it rewrote the 'active' class of the links
Nav ==
  [navs |-> navs, menuDom |-> menuDom, focus |-> navFocus,
   focusTimers |-> focusTimers, activeLinks |-> activeLinks, seen |-> seen,
   scrolls |-> <<>>, updates |-> 0]

SetNav(N) ==
  /\ navs' = N.navs
  /\ menuDom' = N.menuDom
  /\ navFocus' = N.focus
  /\ focusTimers' = N.focusTimers
  /\ activeLinks' = N.activeLinks
  /\ seen' = N.seen

\* NavigationManager.openMobileMenu of instance i
openMobileMenu(N, i) ==
  [N EXCEPT !.navs[i].isMenuOpen = TRUE,
            !.menuDom = OpenDom,
            !.focusTimers = IF navPage.links THEN @ + 1 ELSE @]

\* NavigationManager.closeMobileMenu of instance i
closeMobileMenu(N, i) ==
  [N EXCEPT !.navs[i].isMenuOpen = FALSE,
            !.menuDom = ClosedDom,
            !.focus = "toggle"]

\* toggleMobileMenu that opens whatever the state
toggleAlwaysOpens(N, i) == openMobileMenu(N, i)

\* NavigationManager.toggleMobileMenu of instance i
toggleMobileMenu(N, i) ==
  IF N.navs[i].isMenuOpen THEN closeMobileMenu(N, i) ELSE openMobileMenu(N, i)

\* scrollToSection without the 20 px under the header
scrollToSectionNoGutter(N, i, section) ==
  [N EXCEPT !.scrolls = Append(@, offsetTop(section) - navPage.headerHeight)]

\* NavigationManager.scrollToSection of instance i; the integration never
\* wraps it, as setupComponentIntegration throws before it gets there
scrollToSection(N, i, section) ==
  [N EXCEPT !.scrolls = Append(@, offsetTop(section) - navPage.headerHeight - 20)]

\* NavigationManager.handleNavClick of instance i for a click on a link
handleNavClick(N, i, link) ==
  IF link.target # Null
    THEN scrollToSection(IF N.navs[i].isMenuOpen THEN closeMobileMenu(N, i) ELSE N,
                         i, link.target)
    ELSE N

\* setActiveSection without its "if (this.currentSection === sectionId) return"
setActiveSectionUnguarded(N, i, sectionId) ==
  [N EXCEPT !.navs[i].currentSection = sectionId,
            !.activeLinks = IF navPage.links THEN {sectionId} ELSE {},
            !.updates = @ + 1]

\* NavigationManager.setActiveSection of instance i
setActiveSection(N, i, sectionId) ==
  IF N.navs[i].currentSection = sectionId THEN N
  ELSE [N EXCEPT !.navs[i].currentSection = sectionId,
                 !.activeLinks = IF navPage.links THEN {sectionId} ELSE {},
                 !.updates = @ + 1]

\* this.setActiveSection(entry.target.id) of the observer callback, with the
\* record of it in seen: the section reported, how many of the calls for it
\* in a row performed the update, and whether it was the current section
\* before the first of them
activate(N, i, sectionId) ==
  LET N1 == setActiveSection(N, i, sectionId)
      done == N1.updates - N.updates
      old == N.seen[i]
  IN [N1 EXCEPT
        !.seen[i] = IF old.reported = sectionId
                      THEN [old EXCEPT !.updates = @ + done]
                      ELSE [reported |-> sectionId, updates |-> done,
                            wasCurrent |-> N.navs[i].currentSection = sectionId]]

\* the callback leaving the loop at the first intersecting entry
observerCallbackFirstWins(N, i, entries, k) ==
  IF \A e \in k..Len(entries) : ~entries[e].isIntersecting THEN N
  ELSE activate(N, i, entries[CHOOSE e \in k..Len(entries) :
                                /\ entries[e].isIntersecting
                                /\ \A d \in k..(e - 1) : ~entries[d].isIntersecting].target)

\* the IntersectionObserver callback of instance i for a batch of entries
RECURSIVE observerCallback(_, _, _, _)
observerCallback(N, i, entries, k) ==
  IF k > Len(entries) THEN N
  ELSE observerCallback(IF entries[k].isIntersecting
                          THEN activate(N, i, entries[k].target) ELSE N,
                        i, entries, k + 1)

\* NavigationManager.handleOutsideClick of instance i; target is "menu",
\* "toggle" or "outside"
handleOutsideClick(N, i, target) ==
  IF ~N.navs[i].isMenuOpen THEN N
  ELSE IF target \in {"menu", "toggle"} THEN N
  ELSE closeMobileMenu(N, i)

\* the Escape listener testing for a key name no browser reports
handleEscapeIgnored(N, i) == N

\* the document keydown listener of instance i, for Escape
handleEscapeKeydown(N, i) ==
  IF N.navs[i].isMenuOpen THEN closeMobileMenu(N, i) ELSE N

\* handleResize with > for >=
handleResizeAbove(N, i, innerWidth) ==
  IF innerWidth > 768 /\ N.navs[i].isMenuOpen THEN closeMobileMenu(N, i) ELSE N

\* NavigationManager.handleResize of instance i, with window.innerWidth
handleResize(N, i, innerWidth) ==
  IF innerWidth >= 768 /\ N.navs[i].isMenuOpen THEN closeMobileMenu(N, i) ELSE N

\* NavigationManager.handleToggleKeydown of instance i, for Enter or Space
handleToggleKeydown(N, i) == toggleMobileMenu(N, i)

\* one listener of instance i for an event
Handle(N, i, ev) ==
  CASE ev.type = "toggleClick" -> toggleMobileMenu(N, i)
    [] ev.type = "toggleKeydown" -> handleToggleKeydown(N, i)
    [] ev.type = "linkClick" -> handleNavClick(N, i, ev.link)
    [] ev.type = "documentClick" -> handleOutsideClick(N, i, ev.target)
    [] ev.type = "escape" -> handleEscapeKeydown(N, i)
    [] ev.type = "resize" -> handleResize(N, i, ev.innerWidth)
    [] ev.type = "intersection" ->
         IF N.navs[i].observing THEN observerCallback(N, i, ev.entries, 1) ELSE N

\* every instance has registered its listeners: the event reaches them in
\* the order of construction
RECURSIVE Dispatch(_, _, _)
Dispatch(N, ev, k) ==
  IF k > Len(N.navs) THEN N ELSE Dispatch(Handle(N, k, ev), ev, k + 1)

\* new NavigationManager() on a page that has .nav-toggle and .nav-menu: the
\* listeners are registered and the sections observed; the observer has yet
\* to make its first report
NewNavigationManager(N) ==
  [N EXCEPT !.navs = Append(@, [isMenuOpen |-> FALSE, currentSection |-> "sobre",
                               observing |-> FALSE]),
            !.seen = Append(@, [reported |-> Null, updates |-> 0, wasCurrent |-> FALSE])]

\* ----------------------------------------------------------- FormValidator
\* Object.keys(this.fields), in declaration order
FieldNames == <<"name", "email", "message">>
Fields == {"name", "email", "message"}

\* a string is the sequence of its characters
Whitespace == {" "}

RECURSIVE trimStart(_)
trimStart(s) ==
  IF s # <<>> /\ Head(s) \in Whitespace THEN trimStart(Tail(s)) ELSE s

RECURSIVE trimEnd(_)
trimEnd(s) ==
  IF s # <<>> /\ s[Len(s)] \in Whitespace THEN trimEnd(SubSeq(s, 1, Len(s) - 1)) ELSE s

\* String.prototype.trim
trim(s) == trimEnd(trimStart(s))

\* one or more characters of [^\s@] from position a to position b
Plain(s, a, b) ==
  /\ a <= b
  /\ \A k \in a..b : s[k] \notin Whitespace \cup {"@"}

\* isValidEmail with a pattern that asks for nothing after the '.'
isValidEmailNoTld(s) ==
  \E i, j \in 1..Len(s) :
    /\ s[i] = "@" /\ s[j] = "."
    /\ Plain(s, 1, i - 1)
    /\ Plain(s, i + 1, j - 1)
    /\ \A k \in (j + 1)..Len(s) : s[k] \notin Whitespace \cup {"@"}

\* FormValidator.isValidEmail: /^[^\s@]+@[^\s@]+\.[^\s@]+$/ matches
isValidEmail(s) ==
  \E i, j \in 1..Len(s) :
    /\ s[i] = "@" /\ s[j] = "."
    /\ Plain(s, 1, i - 1)
    /\ Plain(s, i + 1, j - 1)
    /\ Plain(s, j + 1, Len(s))

\* the form state the FormValidator's methods read and write, as one value:
\* the form's elements, the fields, isSubmitting and pending waits of the
\* instance that is running (self; the first one, 0, between events), and
\* under later those of the instances constructed after it; shown collects
\* the success indicators one event dispatch displays
Form ==
  [element |-> element, fields |-> fields, fieldError |-> fieldError,
   isSubmitting |-> isSubmitting, latencyTimers |-> latencyTimers,
   submitButton |-> submitButton, focus |-> focus, modalShown |-> modalShown,
   modalListeners |-> modalListeners, successMessage |-> successMessage,
   successTimers |-> successTimers, later |-> laterValidators,
   pendingWaits |-> pendingWaits, self |-> 0, shown |-> <<>>]

SetForm(F) ==
  /\ element' = F.element
  /\ fields' = F.fields
  /\ fieldError' = F.fieldError
  /\ isSubmitting' = F.isSubmitting
  /\ latencyTimers' = F.latencyTimers
  /\ submitButton' = F.submitButton
  /\ focus' = F.focus
  /\ modalShown' = F.modalShown
  /\ modalListeners' = F.modalListeners
  /\ successMessage' = F.successMessage
  /\ successTimers' = F.successTimers
  /\ laterValidators' = F.later
  /\ pendingWaits' = F.pendingWaits

\* `this` becomes the j-th later instance, or the first one again: the
\* running instance's own state changes places with that of later[j]
This(F, j) ==
  [F EXCEPT !.fields = F.later[j].fields,
            !.isSubmitting = F.later[j].isSubmitting,
            !.latencyTimers = F.later[j].latencyTimers,
            !.self = IF F.self = 0 THEN j ELSE 0,
            !.later[j] = [fields |-> F.fields, isSubmitting |-> F.isSubmitting,
                          latencyTimers |-> F.latencyTimers]]

\* FormValidator.showFieldError
showFieldError(F, f, message) ==
  IF ~formPage.errorElements THEN F ELSE [F EXCEPT !.fieldError[f] = message]

\* clearFieldError that clears the error of every field
clearEveryFieldError(F, f) ==
  IF ~formPage.errorElements THEN F
  ELSE [F EXCEPT !.fieldError = [g \in Fields |-> "none"]]

\* FormValidator.clearFieldError
clearFieldError(F, f) ==
  IF ~formPage.errorElements THEN F ELSE [F EXCEPT !.fieldError[f] = "none"]

RECURSIVE clearErrorsFrom(_, _)
clearErrorsFrom(F, k) ==
  IF k > Len(FieldNames) THEN F
  ELSE clearErrorsFrom(clearFieldError(F, FieldNames[k]), k + 1)

\* FormValidator.clearAllErrors
clearAllErrors(F) == clearErrorsFrom(F, 1)

\* the rules of validateField with <= for < in the two length tests
FieldRuleOffByOne(f, value) ==
  IF value = <<>> THEN "required"
  ELSE IF f = "email" /\ ~isValidEmail(value) THEN "invalidEmail"
  ELSE IF f = "message" /\ Len(value) <= 10 THEN "messageMin"
  ELSE IF f = "name" /\ Len(value) <= 2 THEN "nameMin"
  ELSE "none"

\* the message validateField shows for a trimmed value, "none" when it passes
FieldRule(f, value) ==
  IF value = <<>> THEN "required"
  ELSE IF f = "email" /\ ~isValidEmail(value) THEN "invalidEmail"
  ELSE IF f = "message" /\ Len(value) < 10 THEN "messageMin"
  ELSE IF f = "name" /\ Len(value) < 2 THEN "nameMin"
  ELSE "none"

\* validateField that shows the error of a failing value and leaves isValid
\* as it was
validateFieldKeepsIsValid(F, f) ==
  LET value == trim(F.element[f])
      F1 == clearFieldError([F EXCEPT !.fields[f].value = value], f)
      rule == FieldRule(f, value)
  IN IF rule # "none"
       THEN showFieldError(F1, f, rule)
       ELSE [F1 EXCEPT !.fields[f].isValid = TRUE]

\* FormValidator.validateField; its result is the field's isValid afterwards
validateField(F, f) ==
  LET value == trim(F.element[f])
      F1 == clearFieldError([F EXCEPT !.fields[f].value = value], f)
      rule == FieldRule(f, value)
  IN IF rule # "none"
       THEN [showFieldError(F1, f, rule) EXCEPT !.fields[f].isValid = FALSE]
       ELSE [F1 EXCEPT !.fields[f].isValid = TRUE]

\* the 'blur' listeners of field f: validateField(f) of every instance
RECURSIVE blurFrom(_, _, _)
blurFrom(F, f, j) ==
  IF j > Len(F.later) THEN F
  ELSE blurFrom(This(validateField(This(F, j), f), j), f, j + 1)

blur(F, f) == blurFrom(validateField(F, f), f, 1)

RECURSIVE validateFrom(_, _)
validateFrom(F, k) ==
  IF k > Len(FieldNames) THEN F
  ELSE validateFrom(validateField(F, FieldNames[k]), k + 1)

\* FormValidator.validateAllFields: every field is validated, in order; the
\* result is whether all of them passed
validateAllFields(F) == validateFrom(F, 1)
AllValid(F) == \A f \in Fields : F.fields[f].isValid

\* el.focus(): the field that loses the focus gets its blur listeners run
focusOn(F, el) ==
  IF el = "submit" /\ F.submitButton.disabled THEN F
  ELSE LET F1 == IF F.focus \in Fields /\ F.focus # el
                   THEN blur(F, F.focus) ELSE F
       IN [F1 EXCEPT !.focus = el]

\* the first field, in declaration order, that is not marked valid (0: none)
FirstInvalid(F) ==
  IF \A k \in 1..Len(FieldNames) : F.fields[FieldNames[k]].isValid THEN 0
  ELSE CHOOSE k \in 1..Len(FieldNames) :
         /\ ~F.fields[FieldNames[k]].isValid
         /\ \A m \in 1..(k - 1) : F.fields[FieldNames[m]].isValid

\* focusFirstError that takes the last field not marked valid
focusLastError(F) ==
  IF FirstInvalid(F) = 0 THEN F
  ELSE focusOn(F, FieldNames[CHOOSE k \in 1..Len(FieldNames) :
                    /\ ~F.fields[FieldNames[k]].isValid
                    /\ \A m \in (k + 1)..Len(FieldNames) : F.fields[FieldNames[m]].isValid])

\* FormValidator.focusFirstError
focusFirstError(F) ==
  IF FirstInvalid(F) = 0 THEN F ELSE focusOn(F, FieldNames[FirstInvalid(F)])

\* FormValidator.setSubmitButtonState
setSubmitButtonState(F, isLoading) ==
  IF ~formPage.submitButton THEN F
  ELSE [F EXCEPT !.submitButton = [disabled |-> isLoading, loading |-> isLoading]]

\* closeModal of showSuccessMessage
closeModal(F) ==
  LET F1 == [F EXCEPT !.modalShown = FALSE]
  IN IF formPage.submitButton THEN focusOn(F1, "submit") ELSE F1

\* FormValidator.showSuccessMessage
showSuccessMessage(F) ==
  IF formPage.modal # "absent"
    THEN LET F1 == [F EXCEPT !.modalShown = TRUE, !.shown = Append(@, "modal")]
         IN IF formPage.modal = "full"
              THEN [focusOn(F1, "modalClose") EXCEPT
                      !.modalListeners = [close |-> TRUE, escape |-> TRUE, backdrop |-> TRUE]]
              ELSE F1
    ELSE [F EXCEPT !.successMessage = "shown", !.successTimers = TRUE,
                   !.shown = Append(@, "inline")]

\* clearForm without its clearAllErrors()
clearFormKeepsErrors(F) ==
  [F EXCEPT !.element = [f \in Fields |-> <<>>],
            !.fields = [f \in Fields |-> [isValid |-> FALSE, value |-> <<>>]]]

\* FormValidator.clearForm
clearForm(F) ==
  clearAllErrors([F EXCEPT
    !.element = [f \in Fields |-> <<>>],
    !.fields = [f \in Fields |-> [isValid |-> FALSE, value |-> <<>>]]])

\* FormValidator.simulateFormSubmission up to its await
simulateFormSubmission(F) ==
  [setSubmitButtonState([F EXCEPT !.isSubmitting = TRUE], TRUE) EXCEPT
     !.latencyTimers = @ + 1, !.pendingWaits = Append(@, F.self)]

\* simulateFormSubmission without its finally block
submissionDoneNoFinally(F) == clearForm(showSuccessMessage(F))

\* FormValidator.simulateFormSubmission from the end of the wait on
submissionDone(F) ==
  setSubmitButtonState([clearForm(showSuccessMessage(F)) EXCEPT !.isSubmitting = FALSE],
                       FALSE)

\* handleSubmit without its "if (this.isSubmitting) return"
handleSubmitUnguarded(F) ==
  LET F1 == validateAllFields(F)
  IN IF ~AllValid(F1) THEN focusFirstError(F1) ELSE simulateFormSubmission(F1)

\* FormValidator.handleSubmit
handleSubmit(F) ==
  IF F.isSubmitting THEN F
  ELSE LET F1 == validateAllFields(F)
       IN IF ~AllValid(F1) THEN focusFirstError(F1) ELSE simulateFormSubmission(F1)

\* the 'submit' listeners of the form: handleSubmit of every instance, up to
\* its await
RECURSIVE submitFrom(_, _)
submitFrom(F, j) ==
  IF j > Len(F.later) THEN F
  ELSE submitFrom(This(handleSubmit(This(F, j)), j), j + 1)

\* new FormValidator('contactForm') of a later init() run
NewFormValidator(F) ==
  [F EXCEPT !.later = Append(@, [fields |-> [f \in Fields |-> [isValid |-> FALSE, value |-> <<>>]],
                                 isSubmitting |-> FALSE, latencyTimers |-> 0])]

\* the FormValidator right after its constructor, on a page that has the form
FormPages ==
  [errorElements : BOOLEAN,                  \* #nameError, #emailError, #messageError
   submitButton : BOOLEAN,                   \* button[type=submit]
   modal : {"absent", "bare", "full"}]       \* #successModal, with #modalClose or not

FormConstructed ==
  /\ element = [f \in Fields |-> <<>>]
  /\ fields = [f \in Fields |-> [isValid |-> FALSE, value |-> <<>>]]
  /\ fieldError = [f \in Fields |-> "html"]
  /\ isSubmitting = FALSE
  /\ latencyTimers = 0
  /\ submitButton = [disabled |-> FALSE, loading |-> FALSE]
  /\ focus = "body"
  /\ modalShown = FALSE
  /\ modalListeners = [close |-> FALSE, escape |-> FALSE, backdrop |-> FALSE]
  /\ successMessage = "absent"
  /\ successTimers = FALSE
  /\ laterValidators = <<>>
  /\ pendingWaits = <<>>
  /\ lastForm = [op |-> "new", field |-> "none", shown |-> <<>>, inFlight |-> FALSE,
                 touched |-> FALSE]

\* ------------------------------------------------------------------- Init
Pages ==
  [themeToggle : {"absent", "bare", "icon"},  \* .theme-toggle, with .theme-icon or not
   storage : BOOLEAN,                          \* sessionStorage is usable
   themeColorMeta : BOOLEAN,                   \* meta[name=theme-color] exists
   navigation : {"absent", "present", "noObserver"}]
     \* .nav-toggle and .nav-menu are missing; or they exist, and the browser
     \* defines IntersectionObserver or does not

\* the window before any resize or scroll event
DebounceIdle ==
  /\ timers = <<>>
  /\ viewport = [innerWidth |-> 768, scrollY |-> 0]
  /\ bodyClasses = [isMobile |-> FALSE, isDesktop |-> FALSE, hasScrolled |-> FALSE]
  /\ lastDebounce = [op |-> "load", kind |-> "none", run |-> 0,
                      since |-> [r \in 1..MaxInits |-> [resize |-> -1, scroll |-> -1]]]

\* the navigation of a page on which no NavigationManager has been constructed
NavUnloaded ==
  /\ navPage = [headerHeight |-> 60, links |-> TRUE]
  /\ navs = <<>>
  /\ menuDom = [menuActive |-> FALSE, toggleActive |-> FALSE, ariaExpanded |-> "html",
                ariaHidden |-> "html", overflow |-> ""]
  /\ navFocus = "body"
  /\ focusTimers = 0
  /\ activeLinks = {}
  /\ intersecting = {}
  /\ seen = <<>>
  /\ lastNav = [op |-> "load", inst |-> 0, arg |-> Null, scrolls |-> <<>>, updates |-> 0, was |-> <<>>]

\* what a toggle() starts from: the instance's theme, the marker, the storage
NoSnap == [theme |-> Null, dataTheme |-> Null, stored |-> Null]
Snap(i) == [theme |-> themeManagers[i].currentTheme, dataTheme |-> dataTheme,
            stored |-> stored]

Init ==
  /\ NavUnloaded
  /\ page \in Pages
  /\ themeManagers = <<>>
  /\ dataTheme \in {"dark", Null}
  /\ themeTransition = FALSE
  /\ transitionTimers = FALSE
  /\ stored \in (IF page.storage THEN Strings \cup {Null} ELSE {Null})
  /\ themeButton = [icon |-> "html", label |-> "html", pressed |-> "html"]
  /\ metaContent = "html"
  /\ loaded = FALSE
  /\ apps = <<>>
  /\ portfolioApp = 0
  /\ pendingFrames = <<>>
  /\ inits = 0
  /\ keydownListeners = <<>>
  /\ debouncers = <<>>
  /\ DebounceIdle
  /\ recoveryTimers = 0
  /\ formPage = [errorElements |-> TRUE, submitButton |-> TRUE, modal |-> "full"]
  /\ FormConstructed
  /\ last = [op |-> "load", arg |-> Null, inst |-> 0, run |-> 0, errors |-> 0,
             events |-> <<>>, pre |-> NoSnap, pre2 |-> NoSnap]

\* ---------------------------------------------------------------- actions
Fits(s) ==
  /\ s.recoveryTimers <= MaxRecoveryTimers
  /\ s.inits <= MaxInits

\* what an operation leaves in last: its name, argument and instance, the
\* errors and events of its dispatch and, for toggle(), the state before it
\* and before the toggle() of the same instance that came right before it
Did(op, arg, inst, s) ==
  LET again == op = "toggle" /\ last.op = "toggle" /\ last.inst = inst
  IN [op |-> op, arg |-> arg, inst |-> inst,
      run |-> IF again THEN 2 ELSE 1,
      errors |-> s.errors, events |-> s.events,
      pre |-> IF op = "toggle" THEN Snap(inst) ELSE NoSnap,
      pre2 |-> IF again THEN last.pre ELSE NoSnap]

\* the ThemeManager the coordinator holds (0: none)
Held == IF portfolioApp = 0 THEN 0 ELSE apps[portfolioApp].themeManager

\* document 'DOMContentLoaded': portfolioApp = new PortfolioApp()
DOMContentLoaded ==
  /\ ~loaded
  /\ LET s == NewPortfolioApp(Sys)
     IN /\ Fits(s)
        /\ SetSys(s)
        /\ last' = Did("construct", Null, Len(s.w.tms), s)
  /\ loaded' = TRUE
  /\ UNCHANGED <<debounceVars, navVars, page, formVars>>

\* the animation frame of the oldest waiting init() run
FrameFires ==
  /\ pendingFrames # <<>>
  /\ LET a == Head(pendingFrames)
         s == InitResume([Sys EXCEPT !.pendingFrames = Tail(@)], a)
     IN /\ Fits(s)
        /\ SetSys(s)
        /\ last' = Did("other", Null, 0, s)
  /\ UNCHANGED <<debounceVars, navVars, page, loaded, formVars>>

\* a click on the theme toggle control
ClickThemeToggle ==
  /\ Listeners(World) > 0
  /\ LET s == [Sys EXCEPT !.w = ClickFrom(@, 1)]
     IN /\ Fits(s)
        /\ SetSys(s)
        /\ last' = Did("click", Null, 0, s)
  /\ UNCHANGED <<debounceVars, navVars, page, loaded, formVars>>

\* a keydown of 'T' with Shift and Ctrl or Cmd
KeydownShortcut ==
  /\ LET s == KeydownFrom(Sys, 1)
     IN /\ Fits(s)
        /\ SetSys(s)
        /\ last' = Did("shortcut", Null, Held, s)
  /\ UNCHANGED <<debounceVars, navVars, page, loaded, formVars>>

\* an uncaught error of any script of the page
UncaughtError ==
  /\ LET s == windowError(Sys)
     IN /\ Fits(s)
        /\ SetSys(s)
        /\ last' = Did("other", Null, 0, s)
  /\ UNCHANGED <<debounceVars, navVars, page, loaded, formVars>>

\* a recovery timer of the window 'error' listener fires
RecoveryTimerFires ==
  /\ recoveryTimers > 0
  /\ LET s0 == [Sys EXCEPT !.recoveryTimers = @ - 1]
         s == IF portfolioApp = 0 THEN NewPortfolioApp(s0) ELSE reinitialize(s0, portfolioApp)
     IN /\ Fits(s)
        /\ SetSys(s)
        /\ last' = Did("construct", "recovery", Len(s.w.tms), s)
  /\ UNCHANGED <<debounceVars, navVars, page, loaded, formVars>>

\* portfolioApp.reinitialize() called from outside
ApiReinitialize ==
  /\ portfolioApp # 0
  /\ LET s == reinitialize(Sys, portfolioApp)
     IN /\ Fits(s)
        /\ SetSys(s)
        /\ last' = Did("construct", Null, Len(s.w.tms), s)
  /\ UNCHANGED <<debounceVars, navVars, page, loaded, formVars>>

\* themeManager.toggle() called on the held instance
ApiToggle ==
  /\ Held # 0
  /\ LET s == [Sys EXCEPT !.w = toggle(@, Held)]
     IN /\ Fits(s)
        /\ SetSys(s)
        /\ last' = Did("toggle", Null, Held, s)
  /\ UNCHANGED <<debounceVars, navVars, page, loaded, formVars>>

\* themeManager.set(x) called on the held instance
ApiSet ==
  /\ Held # 0
  /\ \E x \in Strings :
       LET s == [Sys EXCEPT !.w = set(@, Held, x)]
       IN /\ Fits(s)
          /\ SetSys(s)
          /\ last' = Did("set", x, Held, s)
  /\ UNCHANGED <<debounceVars, navVars, page, loaded, formVars>>

\* a timer of apply() removes 'theme-transition'; every pending timer does
\* the same, so the state keeps whether any is left, not how many
TransitionTimerFires ==
  /\ transitionTimers
  /\ transitionTimers' \in BOOLEAN
  /\ themeTransition' = FALSE
  /\ last' = Did("other", Null, 0, Sys)
  /\ UNCHANGED <<debounceVars, navVars, page, themeManagers, dataTheme, stored, themeButton, appVars, formVars>>

Next ==
  \/ DOMContentLoaded
  \/ FrameFires
  \/ ClickThemeToggle
  \/ KeydownShortcut
  \/ UncaughtError
  \/ RecoveryTimerFires
  \/ ApiReinitialize
  \/ ApiToggle
  \/ ApiSet
  \/ TransitionTimerFires

Spec == Init /\ [][Next]_vars

\* ------------------------------------------------- actions of the form
\* what the user can have typed into each field
Values(f) ==
  IF f = "name" THEN {<<>>, <<" ", "A">>, <<"A", "l">>}
  ELSE IF f = "email" THEN {<<>>, <<"a", "@", "b">>, <<"a", "@", "b", ".", "c", "o">>}
  ELSE {<<>>,
        <<"t", "o", "o", " ", "s", "h", "o", "r", "t">>,
        <<"l", "o", "n", "g", " ", "t", "e", "x", "t", " ">>,
        <<"j", "u", "s", "t", " ", "r", "i", "g", "h", "t">>}

\* what a form operation leaves in lastForm: its name and field, the success
\* indicators it displayed, whether a submission was in flight when it began,
\* and whether an input or blur came during the wait of that submission
DidForm(op, f, F) ==
  [op |-> op, field |-> f, shown |-> F.shown, inFlight |-> isSubmitting,
   touched |-> IF op \in {"input", "focus"} THEN isSubmitting
               ELSE IF op = "latency" THEN lastForm.touched
               ELSE (isSubmitting /\ lastForm.touched)]

\* the user types in the focused field: its 'input' listener
Input ==
  /\ focus \in Fields
  /\ \E v \in Values(focus) :
       /\ v # element[focus]
       /\ LET F == clearFieldError([Form EXCEPT !.element[focus] = v], focus)
          IN SetForm(F) /\ lastForm' = DidForm("input", focus, F)
  /\ UNCHANGED <<debounceVars, navVars, page, themeVars, appVars, last, formPage>>

\* the user moves the focus; a field that loses it gets its 'blur' listener
MoveFocus ==
  /\ \E to \in Fields \cup {"body"} :
       /\ to # focus
       /\ LET F == focusOn(Form, to)
          IN SetForm(F) /\ lastForm' = DidForm("focus", focus, F)
  /\ UNCHANGED <<debounceVars, navVars, page, themeVars, appVars, last, formPage>>

\* a 'submit' event of the form
Submit ==
  /\ LET F == submitFrom(handleSubmit(Form), 1)
     IN SetForm(F) /\ lastForm' = DidForm("submit", "none", F)
  /\ UNCHANGED <<debounceVars, navVars, page, themeVars, appVars, last, formPage>>

\* the oldest 1.5 s timer of simulateFormSubmission fires and the method goes
\* on in the instance that was waiting
LatencyElapses ==
  /\ pendingWaits # <<>>
  /\ LET j == Head(pendingWaits)
         F0 == [Form EXCEPT !.pendingWaits = Tail(@)]
         F == IF j = 0
                THEN submissionDone([F0 EXCEPT !.latencyTimers = @ - 1])
                ELSE This(submissionDone([This(F0, j) EXCEPT !.latencyTimers = @ - 1]), j)
     IN SetForm(F) /\ lastForm' = DidForm("latency", "none", F)
  /\ UNCHANGED <<debounceVars, navVars, page, themeVars, appVars, last, formPage>>

\* a click on #modalClose: its once-listener, then the modal's once-listener
\* with a target that is not the modal
ClickModalClose ==
  /\ modalShown /\ formPage.modal = "full"
  /\ LET F0 == IF modalListeners.close THEN closeModal(Form) ELSE Form
         F == [F0 EXCEPT !.modalListeners.close = FALSE, !.modalListeners.backdrop = FALSE]
     IN SetForm(F) /\ lastForm' = DidForm("close", "none", F)
  /\ UNCHANGED <<debounceVars, navVars, page, themeVars, appVars, last, formPage>>

\* a click on the modal outside its content
ClickModalBackdrop ==
  /\ modalShown
  /\ LET F0 == IF modalListeners.backdrop THEN closeModal(Form) ELSE Form
         F == [F0 EXCEPT !.modalListeners.backdrop = FALSE]
     IN SetForm(F) /\ lastForm' = DidForm("backdrop", "none", F)
  /\ UNCHANGED <<debounceVars, navVars, page, themeVars, appVars, last, formPage>>

\* a click inside the modal's content, not on #modalClose
ClickModalContent ==
  /\ modalShown
  /\ LET F == [Form EXCEPT !.modalListeners.backdrop = FALSE]
     IN SetForm(F) /\ lastForm' = DidForm("content", "none", F)
  /\ UNCHANGED <<debounceVars, navVars, page, themeVars, appVars, last, formPage>>

\* a keydown of Escape: handleEscape, which removes itself
KeydownEscape ==
  /\ LET F0 == IF modalListeners.escape THEN closeModal(Form) ELSE Form
         F == [F0 EXCEPT !.modalListeners.escape = FALSE]
     IN SetForm(F) /\ lastForm' = DidForm("escape", "none", F)
  /\ UNCHANGED <<debounceVars, navVars, page, themeVars, appVars, last, formPage>>

\* a 5 s timer hides the inline success message; every pending timer does
\* the same, so the state keeps whether any is left
SuccessTimerFires ==
  /\ successTimers
  /\ successTimers' \in BOOLEAN
  /\ successMessage' = "hidden"
  /\ lastForm' = DidForm("timer", "none", Form)
  /\ UNCHANGED <<debounceVars, navVars, page, themeVars, appVars, last, formPage, element, fields, fieldError,
                 isSubmitting, latencyTimers, submitButton, focus, modalShown,
                 modalListeners, laterValidators, pendingWaits>>

\* the FormValidator of a page that has the form, from its construction on;
\* the rest of the page stays as it was loaded
InitForm ==
  /\ NavUnloaded
  /\ page = [themeToggle |-> "icon", storage |-> TRUE, themeColorMeta |-> TRUE,
             navigation |-> "present"]
  /\ themeManagers = <<>>
  /\ dataTheme = Null
  /\ themeTransition = FALSE
  /\ transitionTimers = FALSE
  /\ stored = Null
  /\ themeButton = [icon |-> "html", label |-> "html", pressed |-> "html"]
  /\ metaContent = "html"
  /\ loaded = FALSE
  /\ apps = <<>>
  /\ portfolioApp = 0
  /\ pendingFrames = <<>>
  /\ inits = 0
  /\ keydownListeners = <<>>
  /\ debouncers = <<>>
  /\ DebounceIdle
  /\ recoveryTimers = 0
  /\ last = [op |-> "load", arg |-> Null, inst |-> 0, run |-> 0, errors |-> 0,
             events |-> <<>>, pre |-> NoSnap, pre2 |-> NoSnap]
  /\ formPage \in FormPages
  /\ FormConstructed

NextForm ==
  \/ Input
  \/ MoveFocus
  \/ Submit
  \/ LatencyElapses
  \/ ClickModalClose
  \/ ClickModalBackdrop
  \/ ClickModalContent
  \/ KeydownEscape
  \/ SuccessTimerFires

SpecForm == InitForm /\ [][NextForm]_vars

\* ------------------------------------------- validation of typed values
\* the characters typed into a field and the values built from them, up to
\* the bound of the field; the email field also gets three addresses as
\* they would be typed
Alphabet(f) == IF f = "email" THEN {"a", "@", ".", " "}
               ELSE IF f = "name" THEN {"A", " "}
               ELSE {"x", " "}
MaxTyped(f) == IF f = "email" THEN MaxEmailLen
               ELSE IF f = "name" THEN MaxNameLen
               ELSE MaxMessageLen
Addresses == {<<"a", "@", "b", ".", "c", "o">>,
              <<"a", "@", "b">>,
              <<"a", " ", "b", "@", "c", ".", "c", "o", "m">>}
Typed(f) == UNION {[1..n -> Alphabet(f)] : n \in 0..MaxTyped(f)}
              \cup (IF f = "email" THEN Addresses ELSE {})

\* the FormValidator of a complete page after the user has put the focus on
\* one field and typed a value into it; the rest of the page stays as loaded
InitValidate ==
  /\ NavUnloaded
  /\ page = [themeToggle |-> "icon", storage |-> TRUE, themeColorMeta |-> TRUE,
             navigation |-> "present"]
  /\ themeManagers = <<>>
  /\ dataTheme = Null
  /\ themeTransition = FALSE
  /\ transitionTimers = FALSE
  /\ stored = Null
  /\ themeButton = [icon |-> "html", label |-> "html", pressed |-> "html"]
  /\ metaContent = "html"
  /\ loaded = FALSE
  /\ apps = <<>>
  /\ portfolioApp = 0
  /\ pendingFrames = <<>>
  /\ inits = 0
  /\ keydownListeners = <<>>
  /\ debouncers = <<>>
  /\ DebounceIdle
  /\ recoveryTimers = 0
  /\ last = [op |-> "load", arg |-> Null, inst |-> 0, run |-> 0, errors |-> 0,
             events |-> <<>>, pre |-> NoSnap, pre2 |-> NoSnap]
  /\ formPage = [errorElements |-> TRUE, submitButton |-> TRUE, modal |-> "full"]
  /\ \E f \in Fields :
       /\ focus = f
       /\ \E v \in Typed(f) : element = [g \in Fields |-> IF g = f THEN v ELSE <<>>]
       /\ fieldError = [g \in Fields |-> IF g = f THEN "none" ELSE "html"]
       /\ lastForm = [op |-> "input", field |-> f, shown |-> <<>>,
                      inFlight |-> FALSE, touched |-> FALSE]
  /\ fields = [f \in Fields |-> [isValid |-> FALSE, value |-> <<>>]]
  /\ isSubmitting = FALSE
  /\ latencyTimers = 0
  /\ submitButton = [disabled |-> FALSE, loading |-> FALSE]
  /\ modalShown = FALSE
  /\ modalListeners = [close |-> FALSE, escape |-> FALSE, backdrop |-> FALSE]
  /\ successMessage = "absent"
  /\ successTimers = FALSE
  /\ laterValidators = <<>>
  /\ pendingWaits = <<>>

\* the typed value is validated when its field loses the focus and when the
\* form is submitted
NextValidate ==
  \/ MoveFocus
  \/ Submit

SpecValidate == InitValidate /\ [][NextValidate]_vars

\* ------------------------------------------- actions of the navigation
\* the sets of sections that can intersect the band together: neighbours
Bands == {{Sections[k] : k \in a..b} : a \in 1..Len(Sections), b \in 0..Len(Sections)}

\* the entries the observer reports for the sections in changed, in document
\* order, when the sections in now intersect the band
EntriesFor(changed, now) ==
  LET ids == SelectSeq(Sections, LAMBDA s : s \in changed)
  IN [k \in 1..Len(ids) |-> [target |-> ids[k], isIntersecting |-> ids[k] \in now]]

\* window.innerWidth at a resize
Widths == {767, 768}

NavPages == [headerHeight : {0, 60},      \* .header's offsetHeight, 0 without one
             links : BOOLEAN]             \* the page has .nav-link anchors

FitsNav(N) == N.focusTimers <= MaxFocusTimers

\* what a navigation event leaves in lastNav: its name, instance and
\* argument, the scrolls it requested, and which instances had the menu open
\* when it arrived
DidNav(op, inst, arg, N) ==
  [op |-> op, inst |-> inst, arg |-> arg, scrolls |-> N.scrolls,
   updates |-> N.updates, was |-> [i \in 1..Len(navs) |-> navs[i].isMenuOpen]]

\* initializeComponents constructs a NavigationManager
ConstructNavigationManager ==
  /\ Len(navs) < MaxNavs
  /\ LET N == NewNavigationManager(Nav)
     IN SetNav(N) /\ lastNav' = DidNav("construct", Len(N.navs), Null, N)
  /\ UNCHANGED <<debounceVars, page, themeVars, appVars, last, formVars, navPage, intersecting>>

\* the observer of instance i makes its first report: an entry per section
ObserverFirstReport ==
  /\ \E i \in 1..Len(navs) :
       /\ ~navs[i].observing
       /\ LET N == observerCallback([Nav EXCEPT !.navs[i].observing = TRUE], i,
                                    EntriesFor(SectionIds, intersecting), 1)
          IN SetNav(N) /\ lastNav' = DidNav("report", i, Null, N)
  /\ UNCHANGED <<debounceVars, page, themeVars, appVars, last, formVars, navPage, intersecting>>

\* the page scrolls: other sections intersect the band, and every observer
\* reports the sections that entered or left it; lastNav keeps the ones
\* that entered
Scroll ==
  /\ \E b \in Bands :
       /\ b # intersecting
       /\ intersecting' = b
       /\ LET changed == (b \ intersecting) \cup (intersecting \ b)
              N == Dispatch(Nav, [type |-> "intersection",
                                  entries |-> EntriesFor(changed, b)], 1)
          IN SetNav(N) /\ lastNav' = DidNav("scroll", 0, b \ intersecting, N)
  /\ UNCHANGED <<debounceVars, page, themeVars, appVars, last, formVars, navPage>>

\* a click on .nav-toggle: its click listeners, then the document's
ClickNavToggle ==
  /\ navs # <<>>
  /\ LET N == Dispatch(Dispatch(Nav, [type |-> "toggleClick"], 1),
                       [type |-> "documentClick", target |-> "toggle"], 1)
     IN FitsNav(N) /\ SetNav(N) /\ lastNav' = DidNav("toggleClick", 0, Null, N)
  /\ UNCHANGED <<debounceVars, page, themeVars, appVars, last, formVars, navPage, intersecting>>

\* Enter or Space on .nav-toggle
KeydownOnNavToggle ==
  /\ navs # <<>>
  /\ LET N == Dispatch(Nav, [type |-> "toggleKeydown"], 1)
     IN FitsNav(N) /\ SetNav(N) /\ lastNav' = DidNav("toggleKeydown", 0, Null, N)
  /\ UNCHANGED <<debounceVars, page, themeVars, appVars, last, formVars, navPage, intersecting>>

\* a click on a navigation link: its click listeners, then the document's
ClickNavLink ==
  /\ navs # <<>> /\ navPage.links
  /\ \E link \in NavLinks :
       LET N == Dispatch(Dispatch(Nav, [type |-> "linkClick", link |-> link], 1),
                         [type |-> "documentClick",
                          target |-> IF link.inMenu THEN "menu" ELSE "outside"], 1)
       IN SetNav(N) /\ lastNav' = DidNav("linkClick", 0, link, N)
  /\ UNCHANGED <<debounceVars, page, themeVars, appVars, last, formVars, navPage, intersecting>>

\* a click on something that is not a link: in the menu or outside of it
ClickElsewhere ==
  /\ navs # <<>>
  /\ \E target \in {"menu", "outside"} :
       LET N == Dispatch(Nav, [type |-> "documentClick", target |-> target], 1)
       IN SetNav(N) /\ lastNav' = DidNav("documentClick", 0, target, N)
  /\ UNCHANGED <<debounceVars, page, themeVars, appVars, last, formVars, navPage, intersecting>>

\* an Escape keydown anywhere in the document
KeydownEscapeAnywhere ==
  /\ navs # <<>>
  /\ LET N == Dispatch(Nav, [type |-> "escape"], 1)
     IN SetNav(N) /\ lastNav' = DidNav("escape", 0, Null, N)
  /\ UNCHANGED <<debounceVars, page, themeVars, appVars, last, formVars, navPage, intersecting>>

\* a resize of the window to some width
Resize ==
  /\ navs # <<>>
  /\ \E innerWidth \in Widths :
       LET N == Dispatch(Nav, [type |-> "resize", innerWidth |-> innerWidth], 1)
       IN SetNav(N) /\ lastNav' = DidNav("resize", 0, innerWidth, N)
  /\ UNCHANGED <<debounceVars, page, themeVars, appVars, last, formVars, navPage, intersecting>>

\* a timer of openMobileMenu fires: firstLink.focus()
FocusTimerFires ==
  /\ focusTimers > 0
  /\ LET N == [Nav EXCEPT !.focusTimers = @ - 1, !.focus = "firstLink"]
     IN SetNav(N) /\ lastNav' = DidNav("timer", 0, Null, N)
  /\ UNCHANGED <<debounceVars, page, themeVars, appVars, last, formVars, navPage, intersecting>>

\* openMobileMenu() or closeMobileMenu() called on an instance from outside
ApiOpenMobileMenu ==
  /\ \E i \in 1..Len(navs) :
       LET N == openMobileMenu(Nav, i)
       IN FitsNav(N) /\ SetNav(N) /\ lastNav' = DidNav("open", i, Null, N)
  /\ UNCHANGED <<debounceVars, page, themeVars, appVars, last, formVars, navPage, intersecting>>

ApiCloseMobileMenu ==
  /\ \E i \in 1..Len(navs) :
       LET N == closeMobileMenu(Nav, i)
       IN SetNav(N) /\ lastNav' = DidNav("close", i, Null, N)
  /\ UNCHANGED <<debounceVars, page, themeVars, appVars, last, formVars, navPage, intersecting>>

\* the theme, the coordinator and the form of a complete page on which only
\* the navigation is looked at
RestOfPageIdle ==
  /\ page = [themeToggle |-> "icon", storage |-> TRUE, themeColorMeta |-> TRUE,
             navigation |-> "present"]
  /\ themeManagers = <<>>
  /\ dataTheme = Null
  /\ themeTransition = FALSE
  /\ transitionTimers = FALSE
  /\ stored = Null
  /\ themeButton = [icon |-> "html", label |-> "html", pressed |-> "html"]
  /\ metaContent = "html"
  /\ loaded = FALSE
  /\ apps = <<>>
  /\ portfolioApp = 0
  /\ pendingFrames = <<>>
  /\ inits = 0
  /\ keydownListeners = <<>>
  /\ debouncers = <<>>
  /\ DebounceIdle
  /\ recoveryTimers = 0
  /\ last = [op |-> "load", arg |-> Null, inst |-> 0, run |-> 0, errors |-> 0,
             events |-> <<>>, pre |-> NoSnap, pre2 |-> NoSnap]
  /\ formPage = [errorElements |-> TRUE, submitButton |-> TRUE, modal |-> "full"]
  /\ FormConstructed

\* the mobile menu of a page that has .nav-toggle and .nav-menu, before any
\* NavigationManager is constructed; the sections stay out of the band
InitMenu ==
  /\ RestOfPageIdle
  /\ navPage \in NavPages
  /\ navs = <<>>
  /\ menuDom = [menuActive |-> FALSE, toggleActive |-> FALSE, ariaExpanded |-> "html",
                ariaHidden |-> "html", overflow |-> ""]
  /\ navFocus = "body"
  /\ focusTimers = 0
  /\ activeLinks = {}
  /\ intersecting = {}
  /\ seen = <<>>
  /\ lastNav = [op |-> "load", inst |-> 0, arg |-> Null, scrolls |-> <<>>, updates |-> 0, was |-> <<>>]

NextMenu ==
  \/ ConstructNavigationManager
  \/ ClickNavToggle
  \/ KeydownOnNavToggle
  \/ ClickNavLink
  \/ ClickElsewhere
  \/ KeydownEscapeAnywhere
  \/ Resize
  \/ FocusTimerFires
  \/ ApiOpenMobileMenu
  \/ ApiCloseMobileMenu

SpecMenu == InitMenu /\ [][NextMenu]_vars

\* the section tracking of such a page, before any NavigationManager is
\* constructed: the markup marks the link of 'sobre' active or no link, and
\* the menu stays closed
InitSections ==
  /\ RestOfPageIdle
  /\ navPage \in {p \in NavPages : p.headerHeight = 0}
  /\ navs = <<>>
  /\ menuDom = [menuActive |-> FALSE, toggleActive |-> FALSE, ariaExpanded |-> "html",
                ariaHidden |-> "html", overflow |-> ""]
  /\ navFocus = "body"
  /\ focusTimers = 0
  /\ activeLinks \in (IF navPage.links THEN {{}, {"sobre"}} ELSE {{}})
  /\ intersecting = {}
  /\ seen = <<>>
  /\ lastNav = [op |-> "load", inst |-> 0, arg |-> Null, scrolls |-> <<>>, updates |-> 0, was |-> <<>>]

NextSections ==
  \/ ConstructNavigationManager
  \/ ObserverFirstReport
  \/ Scroll

SpecSections == InitSections /\ [][NextSections]_vars

\* ------------------------- the form under the FormValidators of init() runs
\* a later init() run reaches new FormValidator('contactForm'): the instance
\* adds its listeners to the form the earlier instances listen on
ConstructFormValidator ==
  /\ Len(laterValidators) + 1 < MaxValidators
  /\ LET F == NewFormValidator(Form)
     IN SetForm(F) /\ lastForm' = DidForm("new", "none", F)
  /\ UNCHANGED <<debounceVars, navVars, page, themeVars, appVars, last, formPage>>

\* the form of a complete page from the first FormValidator's construction
\* on; the rest of the page stays as it was loaded
InitValidators ==
  /\ RestOfPageIdle
  /\ NavUnloaded

NextValidators ==
  \/ ConstructFormValidator
  \/ Input
  \/ MoveFocus
  \/ Submit
  \/ LatencyElapses

SpecValidators == InitValidators /\ [][NextValidators]_vars

\* three values that pass validation
Filled ==
  [name |-> <<"A", "l">>, email |-> <<"a", "@", "b", ".", "c", "o">>,
   message |-> <<"j", "u", "s", "t", " ", "r", "i", "g", "h", "t">>]

\* the form of a page whose inputs the browser has filled in (restored or
\* auto-filled values) before the first FormValidator was constructed; from
\* then on the form is submitted and the modal closed with Escape
InitSubmission ==
  /\ NavUnloaded
  /\ page = [themeToggle |-> "icon", storage |-> TRUE, themeColorMeta |-> TRUE,
             navigation |-> "present"]
  /\ themeManagers = <<>>
  /\ dataTheme = Null
  /\ themeTransition = FALSE
  /\ transitionTimers = FALSE
  /\ stored = Null
  /\ themeButton = [icon |-> "html", label |-> "html", pressed |-> "html"]
  /\ metaContent = "html"
  /\ loaded = FALSE
  /\ apps = <<>>
  /\ portfolioApp = 0
  /\ pendingFrames = <<>>
  /\ inits = 0
  /\ keydownListeners = <<>>
  /\ debouncers = <<>>
  /\ DebounceIdle
  /\ recoveryTimers = 0
  /\ last = [op |-> "load", arg |-> Null, inst |-> 0, run |-> 0, errors |-> 0,
             events |-> <<>>, pre |-> NoSnap, pre2 |-> NoSnap]
  /\ formPage \in FormPages
  /\ element \in {Filled, [Filled EXCEPT !["email"] = <<"a", "@", "b">>]}
  /\ fields = [f \in Fields |-> [isValid |-> FALSE, value |-> <<>>]]
  /\ fieldError = [f \in Fields |-> "html"]
  /\ isSubmitting = FALSE
  /\ latencyTimers = 0
  /\ submitButton = [disabled |-> FALSE, loading |-> FALSE]
  /\ focus = "body"
  /\ modalShown = FALSE
  /\ modalListeners = [close |-> FALSE, escape |-> FALSE, backdrop |-> FALSE]
  /\ successMessage = "absent"
  /\ successTimers = FALSE
  /\ laterValidators = <<>>
  /\ pendingWaits = <<>>
  /\ lastForm = [op |-> "new", field |-> "none", shown |-> <<>>, inFlight |-> FALSE,
                 touched |-> FALSE]

NextSubmission ==
  \/ ConstructFormValidator
  \/ Submit
  \/ LatencyElapses
  \/ KeydownEscape

\* the step LatencyElapses takes, told by the queue of waits alone: no other
\* action removes the oldest wait
TimerTaskRuns == pendingWaits # <<>> /\ pendingWaits' = Tail(pendingWaits)

\* a pending timer fires in the end: the event loop runs every due timer task
SpecSubmission ==
  InitSubmission /\ [][NextSubmission]_vars /\ WF_pendingWaits(TimerTaskRuns)

\* --------------------------------------------- debounced global listeners
\* the delay of a debounce timer, in ms
Delay(kind) == IF kind = "resize" THEN 150 ELSE 10

\* the id setTimeout returns names the timer: the listener that set it
\* and a number that no pending timer of that listener has
FreshId(T, kind, r) ==
  LET used == {T[n].n : n \in {k \in DOMAIN T : T[k].run = r /\ T[k].kind = kind}}
  IN  [run |-> r, kind |-> kind,
       n |-> CHOOSE i \in 1..(Cardinality(used) + 1) :
               i \notin used /\ \A j \in 1..(i - 1) : j \in used]

\* clearTimeout(id): the timer with that id, if it is pending, is dropped
clearTimeout(T, id) == SelectSeq(T, LAMBDA t : t # id)

\* the 'resize' or 'scroll' listener of run r of setupGlobalEventListeners
\* without its clearTimeout
debounceNoClear(W, kind, r) ==
  LET id == FreshId(W.timers, kind, r)
  IN  [debouncers |-> IF kind = "resize"
                      THEN [W.debouncers EXCEPT ![r].resizeTimeout = id]
                      ELSE [W.debouncers EXCEPT ![r].scrollTimeout = id],
       timers |-> Append(W.timers, id)]

\* the 'resize' or 'scroll' listener of run r of setupGlobalEventListeners:
\* it clears the timer its variable holds and sets a new one
debounce(W, kind, r) ==
  LET held == IF kind = "resize" THEN W.debouncers[r].resizeTimeout
                                 ELSE W.debouncers[r].scrollTimeout
      cleared == clearTimeout(W.timers, held)
      id == FreshId(cleared, kind, r)
  IN  [debouncers |-> IF kind = "resize"
                      THEN [W.debouncers EXCEPT ![r].resizeTimeout = id]
                      ELSE [W.debouncers EXCEPT ![r].scrollTimeout = id],
       timers |-> Append(cleared, id)]

\* the event reaches the listeners of every run, in registration order
RECURSIVE debounceFrom(_, _, _)
debounceFrom(W, kind, r) ==
  IF r > Len(W.debouncers) THEN W
  ELSE debounceFrom(debounce(W, kind, r), kind, r + 1)

\* a 'resize' or 'scroll' event of the window; the NavigationManagers' own
\* resize listeners are the action Resize
WindowEvent(kind) ==
  LET W == debounceFrom([debouncers |-> debouncers, timers |-> timers], kind, 1) IN
  /\ Len(W.timers) <= 2 * MaxInits
  /\ debouncers' = W.debouncers
  /\ timers' = W.timers
  /\ lastDebounce' = [op |-> "event", kind |-> kind, run |-> 0,
                       since |-> [r \in 1..MaxInits |->
                                    IF r <= Len(debouncers)
                                    THEN [lastDebounce.since[r] EXCEPT ![kind] = 0]
                                    ELSE lastDebounce.since[r]]]
  /\ UNCHANGED <<bodyClasses, navVars, page, themeVars, metaContent, loaded, apps,
                 portfolioApp, pendingFrames, inits, keydownListeners,
                 recoveryTimers, last, formVars>>

WindowResize ==
  /\ \E w \in Widths : viewport' = [viewport EXCEPT !.innerWidth = w]
  /\ WindowEvent("resize")

WindowScroll ==
  /\ \E y \in {50, 51} : viewport' = [viewport EXCEPT !.scrollY = y]
  /\ WindowEvent("scroll")

\* handleWindowResize() of coordinator a, updateLayoutForScreenSize() included
handleWindowResize(a) ==
  IF apps[a].navigationManager
  THEN [bodyClasses EXCEPT !.isMobile = viewport.innerWidth < 768,
                           !.isDesktop = ~(viewport.innerWidth < 768)]
  ELSE bodyClasses

\* handleScroll(): has-scrolled on the body, and 'scrolled' on .main-nav with it
handleScroll == [bodyClasses EXCEPT !.hasScrolled = viewport.scrollY > 50]

\* a debounce timer fires: of two pending timers, the one set later fires
\* first only if its delay is the shorter one
DebounceTimerFires ==
  \E n \in DOMAIN timers :
    LET t == timers[n] IN
    /\ \A e \in 1..(n - 1) : Delay(timers[e].kind) > Delay(t.kind)
    /\ timers' = SelectSeq(timers, LAMBDA u : u # t)
    /\ bodyClasses' = IF t.kind = "resize" THEN handleWindowResize(keydownListeners[t.run])
                                           ELSE handleScroll
    /\ lastDebounce' = [op |-> "timer", kind |-> t.kind, run |-> t.run,
                         since |-> [lastDebounce.since EXCEPT ![t.run][t.kind] = @ + 1]]
    /\ UNCHANGED <<viewport, navVars, page, themeVars, appVars, last, formVars>>

NextDebounce ==
  \/ DOMContentLoaded
  \/ FrameFires
  \/ ApiReinitialize
  \/ WindowResize
  \/ WindowScroll
  \/ DebounceTimerFires

\* the page with every element present, before DOMContentLoaded
InitDebounce == RestOfPageIdle /\ NavUnloaded

SpecDebounce == InitDebounce /\ [][NextDebounce]_vars

\* ================================================================ claims

\* ---------------------------------------------------------- form claims
formState == <<element, fields, fieldError, isSubmitting, latencyTimers, submitButton,
               focus, modalShown, modalListeners, successMessage, successTimers,
               laterValidators, pendingWaits>>

\* the field's input value passes its rules
Passes(f) == FieldRule(f, trim(element[f])) = "none"

\* the first field, in declaration order, whose input value fails its rules
FirstFailing ==
  FieldNames[CHOOSE k \in 1..Len(FieldNames) :
               /\ ~Passes(FieldNames[k])
               /\ \A m \in 1..(k - 1) : Passes(FieldNames[m])]

\* C1: a submit event that arrives while isSubmitting is true changes
\* nothing (no loading state entered again, no second wait started), and at
\* most one simulated submission is in flight at any time.
C1_SubmitWhileSubmittingIsNoOp ==
  /\ [](latencyTimers <= 1)
  /\ [][(lastForm'.op = "submit" /\ isSubmitting) => UNCHANGED formState]_vars

\* a submit event has arrived during the wait of a submission
C1_Witness ==
  /\ lastForm.op = "submit" /\ lastForm.inFlight
  /\ isSubmitting /\ latencyTimers = 1
  /\ \A f \in Fields : Passes(f)

\* C2: a submit event with all three fields valid and nothing in flight puts
\* the submit control in its loading state and starts the wait; when the wait
\* ends the control is idle again, the three values are empty, no field error
\* is displayed and exactly one success indicator has been shown (the modal
\* if the page has one, the inline message otherwise), whatever input and
\* blur events came in between.
C2_ValidSubmitCompletes ==
  [][/\ (lastForm'.op = "submit" /\ ~isSubmitting /\ \A f \in Fields : Passes(f))
          => /\ isSubmitting' /\ latencyTimers' = 1
             /\ formPage.submitButton
                  => submitButton' = [disabled |-> TRUE, loading |-> TRUE]
     /\ lastForm'.op = "latency"
          => /\ ~isSubmitting' /\ latencyTimers' = 0
             /\ formPage.submitButton
                  => /\ submitButton = [disabled |-> TRUE, loading |-> TRUE]
                     /\ submitButton' = [disabled |-> FALSE, loading |-> FALSE]
             /\ \A f \in Fields :
                  /\ element'[f] = <<>>
                  /\ fields'[f].value = <<>>
                  /\ fieldError'[f] \in {"none", "html"}
             /\ lastForm'.shown =
                  <<IF formPage.modal # "absent" THEN "modal" ELSE "inline">>
             /\ IF formPage.modal # "absent" THEN modalShown'
                ELSE successMessage' = "shown"]_vars

\* a wait has ended after an input or blur came during it, and the page has
\* the error elements
C2_Witness ==
  /\ lastForm.op = "latency" /\ lastForm.touched
  /\ formPage.errorElements
  /\ formPage.modal = "full" /\ modalShown

\* C3: a submit event with nothing in flight and at least one field failing
\* validation starts no submission (isSubmitting stays false, no wait starts,
\* no success indicator is shown) and moves the focus to the first failing
\* field in the order name, email, message.
C3_InvalidSubmitFocusesFirstError ==
  [][(lastForm'.op = "submit" /\ ~isSubmitting /\ \E f \in Fields : ~Passes(f))
       => /\ ~isSubmitting'
          /\ latencyTimers' = latencyTimers
          /\ lastForm'.shown = <<>>
          /\ modalShown' = modalShown
          /\ successMessage' = successMessage
          /\ focus' = FirstFailing]_vars

\* a submit has been refused with name valid and email and message not, and
\* the focus is on email
C3_Witness ==
  /\ lastForm.op = "submit" /\ ~lastForm.inFlight /\ ~isSubmitting
  /\ fields["name"].isValid /\ ~fields["email"].isValid /\ ~fields["message"].isValid
  /\ fieldError["email"] = "invalidEmail" /\ fieldError["message"] = "messageMin"
  /\ focus = "email"

\* the data-theme attribute apply() leaves for a theme
Marker(theme) == IF theme = "dark" THEN "dark" ELSE Null
Flip(theme) == IF theme = "light" THEN "dark" ELSE "light"
Instances == 1..Len(themeManagers)

\* C4: in every reachable state every ThemeManager's currentTheme is 'light'
\* or 'dark', whatever was persisted and whatever set(x) was called with.
C4_CurrentThemeEnumerated ==
  \A i \in Instances : themeManagers[i].currentTheme \in ThemeNames

\* C5: set(v) with v other than 'light' and 'dark' changes nothing: not
\* currentTheme, not the document marker, not the persisted value, not the
\* toggle control.
C5_SetInvalidIsNoOp ==
  [][(last'.op = "set" /\ last'.arg \notin ThemeNames)
       => UNCHANGED <<themeManagers, dataTheme, stored, themeButton>>]_vars

\* C6 as claimed: after two toggle() calls in a row from a theme in
\* {light, dark}, currentTheme and the document marker are the original ones
\* and the persisted value is the original theme name.
C6_ToggleTwiceRestoresAll ==
  (last.op = "toggle" /\ last.run = 2 /\ last.pre2.theme \in ThemeNames)
    => /\ themeManagers[last.inst].currentTheme = last.pre2.theme
       /\ dataTheme = last.pre2.dataTheme
       /\ stored = last.pre2.theme

\* C6 as amended: after two toggle() calls in a row from a theme in
\* {light, dark}, currentTheme is the original theme, the document marker is
\* the marker of that theme, and the persisted value is the original theme
\* name where session storage takes writes and is untouched where it throws.
C6_ToggleTwiceRestoresTheme ==
  (last.op = "toggle" /\ last.run = 2 /\ last.pre2.theme \in ThemeNames)
    => /\ themeManagers[last.inst].currentTheme = last.pre2.theme
       /\ dataTheme = Marker(last.pre2.theme)
       /\ stored = IF page.storage THEN last.pre2.theme ELSE last.pre2.stored

\* a second toggle() in a row has run, from 'dark', on a page whose storage works
C6_Witness ==
  /\ last.op = "toggle" /\ last.run = 2
  /\ last.pre2.theme = "dark" /\ last.pre.theme = "light"
  /\ page.storage /\ stored = "dark"

\* C7, on pages that have the toggle control: a ThemeManager is constructed
\* with currentTheme equal to the persisted value when that is 'light' or
\* 'dark', and 'dark' when it is absent, invalid or unreadable.
C7_ConstructedThemeFromStorage ==
  [][(last'.op = "construct" /\ page.themeToggle # "absent")
       => themeManagers'[last'.inst].currentTheme =
            (IF page.storage /\ stored \in ThemeNames THEN stored ELSE DEFAULT)]_vars

ThemeColor(marker) == IF marker = "dark" THEN "#1a1a1a" ELSE "#ffffff"

\* C9: once init() has run to its end, a click on the toggle control or the
\* keyboard shortcut that changes the theme also sets the theme-color meta tag for the new theme and
\* dispatches exactly one 'portfolioThemeChange' carrying the new theme.
C9_ThemeChangeNotifies ==
  [][(/\ last'.op \in {"click", "shortcut"}
      /\ themeManagers' # themeManagers
      /\ Held # 0 /\ pendingFrames = <<>>)
       => /\ last'.events = <<themeManagers'[Held].currentTheme>>
          /\ page.themeColorMeta => metaContent' = ThemeColor(dataTheme')]_vars

\* C10: Ctrl/Cmd+Shift+T, with the coordinator holding a ThemeManager and
\* its keydown handler registered, flips currentTheme once.
C10_ShortcutToggles ==
  [][(/\ last'.op = "shortcut"
      /\ Held # 0
      /\ \E k \in 1..Len(keydownListeners) : keydownListeners[k] = portfolioApp)
       => themeManagers'[Held].currentTheme = Flip(themeManagers[Held].currentTheme)]_vars

\* the page has every element the three components look for
FullPage ==
  /\ page.themeToggle = "icon" /\ page.themeColorMeta
  /\ page.navigation = "present"

\* C11: on a page with every expected element, init() constructs the
\* ThemeManager first and waits one frame with the other two components not
\* yet constructed; the run then constructs them, registers the page-level
\* listeners, wires the integration without taking the error path and sets
\* isInitialized.
C11_InitRunsThreeStepsAndCompletes ==
  [][(FullPage /\ pendingFrames # <<>> /\ Len(pendingFrames') < Len(pendingFrames))
       => LET a == Head(pendingFrames)
          IN /\ apps[a].themeManager # 0
             /\ apps'[a].navigationManager /\ apps'[a].formValidator
             /\ \E k \in 1..Len(keydownListeners') : keydownListeners'[k] = a
             /\ apps'[a].isInitialized]_vars

\* ----------------------------------------------- claims on validation
\* validateField(f) has just run: f lost the focus, or the form was submitted
\* with nothing in flight
Validated(f) ==
  \/ lastForm'.op = "focus" /\ lastForm'.field = f
  \/ lastForm'.op = "submit" /\ ~isSubmitting

\* local@domain.tld: no whitespace, a single '@' that is not first, and after
\* it a '.' that is neither next to the '@' nor last
HasEmailShape(s) ==
  /\ \A k \in 1..Len(s) : s[k] # " "
  /\ Cardinality({k \in 1..Len(s) : s[k] = "@"}) = 1
  /\ \E i \in 2..Len(s) :
       /\ s[i] = "@"
       /\ \E j \in (i + 2)..(Len(s) - 1) : s[j] = "."

\* the value without the whitespace before and after it
Stripped(s) ==
  IF \A k \in 1..Len(s) : s[k] = " " THEN <<>>
  ELSE LET a == CHOOSE k \in 1..Len(s) : s[k] # " " /\ \A m \in 1..(k - 1) : s[m] = " "
           b == CHOOSE k \in 1..Len(s) : s[k] # " " /\ \A m \in (k + 1)..Len(s) : s[m] = " "
       IN SubSeq(s, a, b)

\* C12 as claimed: validateField('email') marks the field valid exactly when
\* the value of the input is non-empty and has the shape local@domain.tld.
C12_EmailValidIffShape ==
  [][Validated("email")
       => (fields'["email"].isValid
             <=> (element["email"] # <<>> /\ HasEmailShape(element["email"])))]_vars

\* C12 as amended: validateField('email') marks the field valid exactly when
\* the value of the input, without the whitespace before and after it, is
\* non-empty and has the shape local@domain.tld; 'a@b.co' is valid, 'a@b' and
\* 'a b@c.com' are not.
C12_EmailValidIffStrippedShape ==
  [][Validated("email")
       => LET v == Stripped(element["email"])
          IN /\ fields'["email"].isValid <=> (v # <<>> /\ HasEmailShape(v))
             /\ element["email"] = <<"a", "@", "b", ".", "c", "o">>
                  => fields'["email"].isValid
             /\ element["email"] \in Addresses \ {<<"a", "@", "b", ".", "c", "o">>}
                  => ~fields'["email"].isValid]_vars

\* an address typed with a space after it has lost the focus and is marked valid
C12_Witness ==
  /\ lastForm.op = "focus" /\ lastForm.field = "email"
  /\ element["email"] = <<"a", "@", "a", ".", "a", " ">>
  /\ fields["email"].isValid /\ fieldError["email"] = "none"

\* the least number of characters of a name and of a message
MinLength(f) == IF f = "name" THEN 2 ELSE 10

\* C13 as claimed: validateField marks a name valid exactly when it has at
\* least 2 characters and a message exactly when it has at least 10.
C13_MinLengthOfTypedValue ==
  [][\A f \in {"name", "message"} :
       Validated(f) => (fields'[f].isValid <=> Len(element[f]) >= MinLength(f))]_vars

\* C13 as amended: validateField marks a name valid exactly when it has at
\* least 2 characters, and a message exactly when it has at least 10, not
\* counting the whitespace before and after the value.
C13_MinLengthOfStrippedValue ==
  [][\A f \in {"name", "message"} :
       Validated(f)
         => (fields'[f].isValid <=> Len(Stripped(element[f])) >= MinLength(f))]_vars

\* a message of 10 characters and one of 11 that ends in a space have been
\* validated: the first kind is valid, and so is the second (10 without the space)
C13_Witness ==
  /\ lastForm.op = "focus" /\ lastForm.field = "message"
  /\ element["message"] = [k \in 1..11 |-> IF k = 11 THEN " " ELSE "x"]
  /\ fields["message"].isValid

\* C14: an input event on a field clears the error displayed for that field
\* and nothing else: the recorded value and isValid of the field, the state
\* and the displayed errors of the other two fields and isSubmitting stay as
\* they were.
C14_InputClearsOnlyOwnError ==
  [][lastForm'.op = "input"
       => LET f == lastForm'.field
          IN /\ formPage.errorElements => fieldError'[f] = "none"
             /\ fields' = fields
             /\ \A g \in Fields \ {f} :
                  fieldError'[g] = fieldError[g] /\ element'[g] = element[g]
             /\ isSubmitting' = isSubmitting
             /\ latencyTimers' = latencyTimers
             /\ UNCHANGED <<submitButton, focus, modalShown, successMessage>>]_vars

\* a valid address has been typed over one that was found invalid: the error
\* of the email field is gone, its recorded value and isValid are the old
\* ones, and the error of the name field is still displayed
C14_Witness ==
  /\ lastForm.op = "input" /\ lastForm.field = "email"
  /\ element["email"] = <<"a", "@", "b", ".", "c", "o">>
  /\ fields["email"] = [isValid |-> FALSE, value |-> <<"a", "@", "b">>]
  /\ fieldError["email"] = "none"
  /\ fieldError["name"] = "required"

\* ------------------------------------------------- navigation claims
NavInstances == 1..Len(navs)

\* C15: toggleMobileMenu flips isMenuOpen; openMobileMenu on a menu that is
\* open already (the instance says so and the page shows it) and
\* closeMobileMenu on one that is closed already leave isMenuOpen, the
\* active styling, the ARIA attributes and the scroll suppression as they are.
C15_MenuStateMachine ==
  [][/\ lastNav'.op \in {"toggleClick", "toggleKeydown"}
          => \A i \in NavInstances : navs'[i].isMenuOpen = ~navs[i].isMenuOpen
     /\ (/\ lastNav'.op = "open"
         /\ navs[lastNav'.inst].isMenuOpen /\ menuDom = OpenDom)
          => navs' = navs /\ menuDom' = menuDom
     /\ (/\ lastNav'.op = "close"
         /\ ~navs[lastNav'.inst].isMenuOpen /\ menuDom = ClosedDom)
          => navs' = navs /\ menuDom' = menuDom]_vars

\* openMobileMenu() has been called on an open menu, which is open still
C15_Witness ==
  /\ lastNav.op = "open" /\ lastNav.was[lastNav.inst]
  /\ navs[lastNav.inst].isMenuOpen /\ menuDom = OpenDom

\* C16: a resize to 768 px or more closes an open menu; a resize to less
\* changes no isMenuOpen, and no resize opens a closed menu.
C16_ResizeClosesAtDesktopWidth ==
  [][lastNav'.op = "resize"
       => \A i \in NavInstances :
            /\ (lastNav'.arg >= 768 /\ navs[i].isMenuOpen) => ~navs'[i].isMenuOpen
            /\ lastNav'.arg < 768 => navs'[i].isMenuOpen = navs[i].isMenuOpen
            /\ ~navs[i].isMenuOpen => ~navs'[i].isMenuOpen]_vars

\* a resize to exactly 768 px has closed an open menu
C16_Witness ==
  /\ lastNav.op = "resize" /\ lastNav.arg = 768
  /\ lastNav.was[1] /\ ~navs[1].isMenuOpen
  /\ menuDom = ClosedDom /\ navFocus = "toggle"

\* C17: after an Escape keydown, and after a click outside the menu and the
\* toggle control, isMenuOpen is false: an open menu is closed and a closed
\* one stays closed.
C17_EscapeAndOutsideClickClose ==
  [][(\/ lastNav'.op = "escape"
      \/ lastNav'.op = "documentClick" /\ lastNav'.arg = "outside")
       => \A i \in NavInstances : ~navs'[i].isMenuOpen]_vars

\* an Escape keydown has closed an open menu
C17_Witness ==
  /\ lastNav.op = "escape"
  /\ lastNav.was[1] /\ ~navs[1].isMenuOpen
  /\ menuDom = ClosedDom

\* the scroll position the claim names for a link
ScrollTarget(link) == offsetTop(link.target) - navPage.headerHeight - 20

\* C18 as claimed: a click on any navigation link while the menu is open
\* closes the menu and requests a scroll to the target section.
C18_LinkClickClosesAndScrolls ==
  [][(lastNav'.op = "linkClick" /\ \E i \in NavInstances : navs[i].isMenuOpen)
       => /\ \A i \in NavInstances : ~navs'[i].isMenuOpen
          /\ lastNav'.scrolls # <<>>]_vars

\* C18 as amended: a click, while the menu is open, on a navigation link
\* whose href names an element of the page closes the menu and requests a
\* scroll to the top offset of that element minus the header's height minus
\* 20 px.
C18_ResolvedLinkClickClosesAndScrolls ==
  [][(/\ lastNav'.op = "linkClick"
      /\ lastNav'.arg.target # Null
      /\ \E i \in NavInstances : navs[i].isMenuOpen)
       => /\ \A i \in NavInstances : ~navs'[i].isMenuOpen
          /\ lastNav'.scrolls # <<>>
          /\ \A k \in 1..Len(lastNav'.scrolls) :
               lastNav'.scrolls[k] = ScrollTarget(lastNav'.arg)]_vars

\* the link to 'projetos' has been clicked in the open menu of a page whose
\* header is 60 px high: the menu is closed and the scroll goes to 520
C18_Witness ==
  /\ lastNav.op = "linkClick" /\ lastNav.arg = [inMenu |-> TRUE, target |-> "projetos"]
  /\ lastNav.was[1] /\ ~navs[1].isMenuOpen
  /\ navPage.headerHeight = 60
  /\ lastNav.scrolls[1] = 520

\* C19 as claimed: for the section the observer reports as intersecting, once
\* or several times in a row, the activation update has been performed
\* exactly once.
C19_ActivatedExactlyOnce ==
  \A i \in NavInstances : seen[i].reported # Null => seen[i].updates = 1

\* C19 as amended: for the section the observer reports as intersecting, once
\* or several times in a row, the activation update has been performed once
\* if it was not the current section at the first report and not at all if
\* it was (as 'sobre' is from the constructor on); it is the current section
\* afterwards, and a call for the current section changes no state and no
\* link marker.
C19_ActivatedAtMostOnce ==
  /\ [](\A i \in NavInstances :
          seen[i].reported # Null
            => /\ navs[i].currentSection = seen[i].reported
               /\ seen[i].updates = IF seen[i].wasCurrent THEN 0 ELSE 1)
  /\ [][(/\ lastNav'.op = "scroll"
         /\ \A s \in intersecting' \ intersecting :
              \A i \in NavInstances : navs[i].currentSection = s)
          => /\ lastNav'.updates = 0
             /\ activeLinks' = activeLinks
             /\ \A i \in NavInstances :
                  navs'[i].currentSection = navs[i].currentSection]_vars

\* 'projetos' has entered the band, left it and entered it again, with no
\* other section in between: one update, and its link is the active one
C19_Witness ==
  /\ lastNav.op = "scroll" /\ lastNav.arg = {"projetos"} /\ lastNav.updates = 0
  /\ intersecting = {"projetos"}
  /\ navs # <<>> /\ navs[1].observing
  /\ seen[1] = [reported |-> "projetos", updates |-> 1, wasCurrent |-> FALSE]
  /\ navs[1].currentSection = "projetos"
  /\ navPage.links /\ activeLinks = {"projetos"}

\* C20: whenever some section intersects the band, the currentSection of an
\* instance whose observer has reported is a section that intersects it.
C20_CurrentSectionIntersects ==
  \A i \in NavInstances :
    (navs[i].observing /\ intersecting # {}) => navs[i].currentSection \in intersecting

\* ------------------------------------------------ claims on the modal
\* the page has the modal with its close control, and the submit control
ModalPage == formPage.modal = "full" /\ formPage.submitButton

\* C21: on a page with the modal, its close control and the submit control,
\* while the modal is visible each of a click on the close control, an Escape
\* keydown and a click on the backdrop hides it and puts the focus on the
\* submit control, whatever clicks and keys came before while it was visible.
C21_EveryCloseTriggerCloses ==
  [][(ModalPage /\ modalShown /\ lastForm'.op \in {"close", "escape", "backdrop"})
       => (~modalShown' /\ focus' = "submit")]_vars

Validators == 0..Len(laterValidators)
Submitting(j) ==
  IF j = 0 THEN isSubmitting
  ELSE IF j <= Len(laterValidators) THEN laterValidators[j].isSubmitting
  ELSE FALSE
WaitPending(j) == \E k \in 1..Len(pendingWaits) : pendingWaits[k] = j

\* C23: in every reachable state, for every FormValidator, isSubmitting is
\* true exactly when a wait of that instance is pending, and the submit
\* control (on a page that has one) is disabled and in its loading
\* presentation exactly when isSubmitting is true.
C23_SubmittingIffWaitingAndLoading ==
  \A j \in Validators :
    /\ Submitting(j) <=> WaitPending(j)
    /\ formPage.submitButton
         => /\ submitButton.disabled <=> Submitting(j)
            /\ submitButton.loading <=> Submitting(j)

\* C24: every simulated submission that starts finishes in the end with the
\* instance's isSubmitting false and the submit control enabled and out of
\* its loading presentation.
C24_SubmissionFinishes ==
  \A j \in 0..(MaxValidators - 1) :
    (j \in Validators /\ Submitting(j))
      ~> (/\ ~Submitting(j)
          /\ submitButton = [disabled |-> FALSE, loading |-> FALSE])

\* the waits of two instances started by one submit event have both ended
C24_Witness ==
  /\ lastForm.op = "latency"
  /\ Len(laterValidators) = 1
  /\ ~isSubmitting /\ ~laterValidators[1].isSubmitting
  /\ pendingWaits = <<>>
  /\ formPage.submitButton
  /\ submitButton = [disabled |-> FALSE, loading |-> FALSE]
  /\ modalShown

\* ------------------------------------------- claims on validateField
\* the messages validateField can show for a field
MessagesOf(f) ==
  {"required"} \cup (IF f = "name" THEN {"nameMin"}
                     ELSE IF f = "email" THEN {"invalidEmail"} ELSE {"messageMin"})

LastOf(S) == Sections[CHOOSE k \in 1..Len(Sections) :
                        /\ Sections[k] \in S
                        /\ \A m \in (k + 1)..Len(Sections) : Sections[m] \notin S]

\* C26: after the observer callback of an instance has processed a batch of
\* entries (its first report, or the report of a scroll), the instance's
\* currentSection is the target of the last intersecting entry of the batch,
\* and is as before when no entry of the batch is intersecting.
C26_LastIntersectingEntryWins ==
  [][/\ lastNav'.op = "scroll"
          => \A i \in NavInstances :
               navs[i].observing
                 => navs'[i].currentSection =
                      (IF lastNav'.arg = {} THEN navs[i].currentSection
                       ELSE LastOf(lastNav'.arg))
     /\ lastNav'.op = "report"
          => navs'[lastNav'.inst].currentSection =
               (IF intersecting = {} THEN navs[lastNav'.inst].currentSection
                ELSE LastOf(intersecting))]_vars

\* a scroll has brought 'projetos' and 'contato' into the band at once, and
\* the instance that had 'sobre' now has 'contato'
C26_Witness ==
  /\ lastNav.op = "scroll" /\ lastNav.arg = {"projetos", "contato"}
  /\ navs # <<>> /\ navs[1].observing
  /\ navs[1].currentSection = "contato"
  /\ navPage.links /\ activeLinks = {"contato"}

\* ---------------------------------------- claims on failing init() runs
\* C27: when an init() run goes on after its frame and new
\* NavigationManager() throws, no component is constructed after it and no
\* page-level listener registered; when setupComponentIntegration throws, no
\* wrapper is installed; either way isInitialized is false afterwards, the
\* coordinator holds the ThemeManager it held at the failure, and the
\* fallback constructs a ThemeManager only for a coordinator holding none.
C27_FailedInitFallsBack ==
  [][(pendingFrames # <<>> /\ Len(pendingFrames') < Len(pendingFrames))
       => LET a == Head(pendingFrames)
              tm == apps[a].themeManager
              step1 == page.navigation = "noObserver"
              step3 == ~step1 /\ tm # 0 /\ themeManagers[tm].toggleTheme = "undefined"
          IN /\ step1 => /\ apps'[a].navigationManager = apps[a].navigationManager
                         /\ apps'[a].formValidator = apps[a].formValidator
                         /\ keydownListeners' = keydownListeners
             /\ step3 => /\ apps'[a].navigationManager /\ apps'[a].formValidator
                         /\ keydownListeners' = Append(keydownListeners, a)
                         /\ \A i \in Instances : themeManagers'[i].wrappers = 0
             /\ (step1 \/ step3)
                  => /\ ~apps'[a].isInitialized
                     /\ apps'[a].themeManager # 0
                     /\ tm # 0 => apps'[a].themeManager = tm
             /\ Len(themeManagers') > Len(themeManagers) => tm = 0]_vars

\* an init() run has failed at new NavigationManager(): the coordinator holds
\* the ThemeManager of that run and nothing else, no keydown listener is
\* registered and no further ThemeManager has been constructed
C27_Witness ==
  /\ last.op = "other" /\ pendingFrames = <<>> /\ inits = 1
  /\ page.navigation = "noObserver"
  /\ Len(apps) = 1 /\ apps[1].themeManager = 1 /\ Len(themeManagers) = 1
  /\ ~apps[1].isInitialized
  /\ ~apps[1].navigationManager /\ ~apps[1].formValidator
  /\ keydownListeners = <<>>

\* ------------------------------------------------------- debounce claims
\* the pending timers of one kind set by the listeners of run r
Pending(r, kind) ==
  Cardinality({n \in DOMAIN timers : timers[n].run = r /\ timers[n].kind = kind})

\* C28: the listeners of one run of setupGlobalEventListeners have at most one
\* resize timer and at most one scroll timer pending; once such a listener has
\* had an event, the timer pending for it and the runs of its handler since
\* the last event add up to exactly one; and the handler that a timer runs
\* sees the window as the last event left it
C28_DebounceRunsHandlerOnce ==
  /\ [](\A r \in DOMAIN debouncers : \A kind \in {"resize", "scroll"} :
          /\ Pending(r, kind) <= 1
          /\ lastDebounce.since[r][kind] = -1 => Pending(r, kind) = 0
          /\ lastDebounce.since[r][kind] # -1
               => Pending(r, kind) + lastDebounce.since[r][kind] = 1)
  /\ [][lastDebounce'.op = "timer"
          => /\ lastDebounce'.kind = "scroll"
                  => bodyClasses'.hasScrolled = (viewport.scrollY > 50)
             /\ lastDebounce'.kind = "resize"
                  => /\ bodyClasses'.isMobile = (viewport.innerWidth < 768)
                     /\ bodyClasses'.isDesktop = (viewport.innerWidth >= 768)]_vars

\* two runs have registered listeners, a burst of two resize events has passed,
\* the timer of the first run has run its handler on the narrow window and the
\* timer of the second run is still pending
C28_Witness ==
  /\ Len(debouncers) = 2
  /\ lastDebounce.op = "timer" /\ lastDebounce.kind = "resize" /\ lastDebounce.run = 1
  /\ lastDebounce.since[1]["resize"] = 1
  /\ Pending(2, "resize") = 1
  /\ viewport.innerWidth = 767 /\ bodyClasses.isMobile

\* ----------------------------------------------------- mobile menu claims
\* C29: once the menu has been opened or closed, the menu and the toggle
\* carry the active marker, aria-expanded is 'true', aria-hidden is 'false'
\* and the body's overflow is 'hidden' exactly when isMenuOpen of the
\* NavigationManager constructed last, the one the coordinator holds, is true
C29_MenuAgreesWithIsMenuOpen ==
  (navs # <<>> /\ menuDom.ariaExpanded # "html")
    => LET open == navs[Len(navs)].isMenuOpen IN
       /\ menuDom.menuActive = open
       /\ menuDom.toggleActive = open
       /\ (menuDom.ariaExpanded = "true") = open
       /\ (menuDom.ariaHidden = "false") = open
       /\ (menuDom.overflow = "hidden") = open

\* C30: a timer of openMobileMenu that fires while the menu is closed leaves
\* the focus where it is, on the toggle control if closeMobileMenu put it there
C30_DeferredFocusOnlyWhileOpen ==
  [][(lastNav'.op = "timer" /\ ~menuDom.menuActive) => navFocus' = navFocus]_vars

\* ------------------------------------------------- reinitialization claims
\* C31: however often init() has run, through reinitialize() or the recovery
\* from an uncaught error, a click on the theme toggle, a keydown, a resize
\* and a scroll each have at most one listener to handle them
C31_HandlersDoNotAccumulate ==
  /\ Listeners(World) <= 1
  /\ Len(keydownListeners) <= 1
  /\ Len(debouncers) <= 1

====
